---- MODULE Spec2Model ----
(***************************************************************************)
(* Model of jkomyno/priority-queue: the array-backed heaps (Heap,          *)
(* BinaryHeap, KHeap<K>) and the PriorityQueue that privately extends one  *)
(* of them and keeps key_map / index_map next to the backing vector.       *)
(*                                                                         *)
(* Positions are 0-based as in the C++ code; the backing std::vector is a  *)
(* TLA+ sequence, so position i of the vector is nodes[i + 1] (see At).    *)
(* An std::unordered_map is a function whose DOMAIN is the set of keys     *)
(* that have an entry.                                                     *)
(***************************************************************************)
EXTENDS Integers, Sequences, FiniteSets, Bags, TLC

(***************************************************************************)
(* Bounds of the exploration.                                              *)
(***************************************************************************)
\* elements a PriorityQueue may hold: 1..NumElems (also its largest size)
NumElems == 3
\* keys of a PriorityQueue: 0..MaxKey
MaxKey == 2
\* longest backing vector of a plain heap
MaxLen == 5
\* values stored in a plain heap: 0..MaxVal
MaxVal == 2

\* width (in bits) of std::size_t used for the unsigned arithmetic of
\* KHeap::is_leaf; 16 is the least width the language guarantees
SizeWidth == 16

\* KHeap<K> requires K > 2: the least arity the template accepts stands for
\* the K-ary heaps in the exploration (2 is BinaryHeap); the arities 4, 5
\* and 8 of the README and of the tests are exercised on their own vectors
SmallestKary == 3

Elems == 1..NumElems
Keys == 0..MaxKey
Vals == 0..MaxVal
\* the arities a caller may ask KHeap<K> for
TriedArities == 1..SmallestKary

\* faulty variant: every positive arity is accepted
KHeap_enable_if_positive(k) == k > 0

\* std::enable_if<(K > 2)>::type: KHeap<K> compiles only if this holds
KHeap_enable_if(k) == k > 2

\* the arities of the objects that can be built: 2 is BinaryHeap, the others
\* are the KHeap<K> the compiler accepts
Arities == {2} \cup {k \in TriedArities : KHeap_enable_if(k)}
SizeMod == 2 ^ SizeWidth

VARIABLES
  cls,            \* "Heap" (plain BinaryHeap/KHeap) or "PriorityQueue"
  K,              \* arity: 2 = BinaryHeap, > 2 = KHeap<K>
  HeapType,       \* "min_heap" or "max_heap": which factory built the object
  nodes,          \* Heap::nodes, the backing vector
  key_map,        \* PriorityQueue::key_map
  index_map,      \* PriorityQueue::index_map
  \* ---- observation (history) variables, never read by the operations ----
  ctor_args,      \* the constructor call, observed until the first operation
  trail,          \* what was applied since construction: "ctor" nothing yet,
                  \* "pushes" pushes only on an object built empty,
                  \* "updates" update_key only, "other" anything else
  live,           \* what the caller put in and has not popped: for a plain heap
                  \* the bag of values, for a queue element -> last key given
  monotone,       \* every update_key so far moved the key in the documented direction
  signal,         \* how the latest call ended: it returned, an assert failed
                  \* (the process is aborted), or std::out_of_range was thrown
  \* ---- used where a call is followed statement by statement (StepSpec) ----
  frame,          \* where the running call stands and its local variables
  seen            \* observation: the call in progress, the object it started
                  \* from, what its latest step read, compared and swapped, the
                  \* position its latest heapify_down was called with and
                  \* whether all subtrees below that position were heaps then

vars ==
  <<cls, K, HeapType, nodes, key_map, index_map, ctor_args, trail, live, monotone, signal,
    frame, seen>>

(***************************************************************************)
(* Containers.                                                             *)
(***************************************************************************)
\* std::vector::at(i)
At(s, i) == s[i + 1]

\* std::swap(nodes.at(i), nodes.at(j))
SwapSeq(s, i, j) == [s EXCEPT ![i + 1] = s[j + 1], ![j + 1] = s[i + 1]]

\* faulty variant: an entry that exists is kept (emplace instead of operator[])
MapPut_keeps_first(m, k, v) ==
  [x \in (DOMAIN m) \cup {k} |-> IF x \in DOMAIN m THEN m[x] ELSE v]

\* unordered_map::operator[] used as an assignment: m[k] = v
MapPut(m, k, v) == [x \in (DOMAIN m) \cup {k} |-> IF x = k THEN v ELSE m[x]]

\* unordered_map::erase(k)
MapErase(m, k) == [x \in (DOMAIN m) \ {k} |-> m[x]]

EmptyMap == [x \in {} |-> 0]

\* the object: its fields and the template parameters its methods depend on
Self == [cls |-> cls, K |-> K, HeapType |-> HeapType, nodes |-> nodes,
         key_map |-> key_map, index_map |-> index_map]

size(h) == Len(h.nodes)

empty(h) == size(h) = 0

(***************************************************************************)
(* Comparators.  comp(a, b) true means: a must give way to b.              *)
(***************************************************************************)
\* std::greater<>{} (make_min_heap, make_min_k_heap)
std_greater(a, b) == a > b

\* std::less<>{} (make_max_heap, make_max_k_heap)
std_less(a, b) == a < b

\* faulty variant: equal keys count as "must give way"
min_heap_comp_not_strict(km, a, b) == km[a] >= km[b]

\* detail::min_heap_comp_factory(key_map)
min_heap_comp(km, a, b) == km[a] > km[b]

\* detail::max_heap_comp_factory(key_map)
max_heap_comp(km, a, b) == km[a] < km[b]

\* the comparator a make_* factory of plain heaps initialises the heap with:
\* std::greater<>{} in make_min_heap / make_min_k_heap, std::less<>{} in
\* make_max_heap / make_max_k_heap
factory_comparator(type) == IF type = "min_heap" THEN "std::greater" ELSE "std::less"

\* Heap::comp, as bound by the factory that built the object
comp(h, a, b) ==
  IF h.cls = "Heap"
    THEN IF factory_comparator(h.HeapType) = "std::greater" THEN std_greater(a, b)
                                                            ELSE std_less(a, b)
    ELSE IF h.HeapType = "min_heap" THEN min_heap_comp(h.key_map, a, b)
                                    ELSE max_heap_comp(h.key_map, a, b)

(***************************************************************************)
(* swap_nodes: virtual in Heap, overridden by PriorityQueue.               *)
(***************************************************************************)
Heap_swap_nodes(h, i, j) == [h EXCEPT !.nodes = SwapSeq(h.nodes, i, j)]

\* faulty variant: the nodes are exchanged, the index_map entries are not
PQ_swap_nodes_nodes_only(h, i, j) == Heap_swap_nodes(h, i, j)

PQ_swap_nodes(h, i, j) ==
  LET node_i == At(h.nodes, i)
      node_j == At(h.nodes, j)
      im == h.index_map
      swapped == [im EXCEPT ![node_i] = im[node_j], ![node_j] = im[node_i]]
  IN  Heap_swap_nodes([h EXCEPT !.index_map = swapped], i, j)

\* faulty variant: swap_nodes is not virtual, so the repairs of Heap call
\* Heap::swap_nodes on a PriorityQueue too
swap_nodes_not_virtual(h, i, j) == Heap_swap_nodes(h, i, j)

swap_nodes(h, i, j) ==
  IF h.cls = "PriorityQueue" THEN PQ_swap_nodes(h, i, j) ELSE Heap_swap_nodes(h, i, j)

(***************************************************************************)
(* Index arithmetic.                                                       *)
(***************************************************************************)
left(i) == (i * 2) + 1

right(i) == (i * 2) + 2

BinaryHeap_is_leaf(h, i) == i >= (size(h) \div 2) + 1

BinaryHeap_parent(i) == (i - 1) \div 2

child(k, i, j) == (k * i) + j + 1

\* size() - 2 is computed on std::size_t and wraps for size() < 2
KHeap_is_leaf(h, i) == i > (((size(h) - 2) % SizeMod) \div h.K)

KHeap_parent(k, i) == (i - 1) \div k

parent(h, i) == IF h.K = 2 THEN BinaryHeap_parent(i) ELSE KHeap_parent(h.K, i)

(***************************************************************************)
(* Repairs.                                                                *)
(***************************************************************************)
\* faulty variant: the comparator is asked with its operands exchanged
RECURSIVE heapify_up_operands_exchanged(_, _)
heapify_up_operands_exchanged(h, i) ==
  IF i > 0 /\ comp(h, At(h.nodes, i), At(h.nodes, parent(h, i)))
    THEN LET p == parent(h, i) IN heapify_up_operands_exchanged(swap_nodes(h, i, p), p)
    ELSE h

RECURSIVE heapify_up(_, _)
heapify_up(h, i) ==
  IF i > 0 /\ comp(h, At(h.nodes, parent(h, i)), At(h.nodes, i))
    THEN LET p == parent(h, i) IN heapify_up(swap_nodes(h, i, p), p)
    ELSE h

\* faulty variant: the right child is never looked at
RECURSIVE BinaryHeap_heapify_down_left_only(_, _)
BinaryHeap_heapify_down_left_only(h, i) ==
  IF BinaryHeap_is_leaf(h, i) THEN h
  ELSE LET len == size(h)
           l == left(i)
           comp_est == IF l < len /\ comp(h, At(h.nodes, i), At(h.nodes, l)) THEN l ELSE i
       IN  IF i = comp_est THEN h
           ELSE BinaryHeap_heapify_down_left_only(swap_nodes(h, i, comp_est), comp_est)

RECURSIVE BinaryHeap_heapify_down(_, _)
BinaryHeap_heapify_down(h, i) ==
  IF BinaryHeap_is_leaf(h, i) THEN h
  ELSE LET len == size(h)
           l == left(i)
           r == right(i)
           est1 == IF l < len /\ comp(h, At(h.nodes, i), At(h.nodes, l)) THEN l ELSE i
           comp_est == IF r < len /\ comp(h, At(h.nodes, est1), At(h.nodes, r))
                         THEN r ELSE est1
       IN  IF i = comp_est THEN h
           ELSE BinaryHeap_heapify_down(swap_nodes(h, i, comp_est), comp_est)

\* faulty variant: every child is compared with node i, not with the best so far
RECURSIVE KHeap_scan_against_i(_, _, _, _)
KHeap_scan_against_i(h, i, j, comp_est) ==
  IF j < h.K
    THEN LET son == child(h.K, i, j)
         IN  IF son < size(h) /\ comp(h, At(h.nodes, i), At(h.nodes, son))
               THEN KHeap_scan_against_i(h, i, j + 1, son)
               ELSE KHeap_scan_against_i(h, i, j + 1, comp_est)
    ELSE comp_est

\* the for loop over the K children: j is the next child, comp_est the best so far
RECURSIVE KHeap_scan(_, _, _, _)
KHeap_scan(h, i, j, comp_est) ==
  IF j < h.K
    THEN LET son == child(h.K, i, j)
         IN  IF son < size(h) /\ comp(h, At(h.nodes, comp_est), At(h.nodes, son))
               THEN KHeap_scan(h, i, j + 1, son)
               ELSE KHeap_scan(h, i, j + 1, comp_est)
    ELSE comp_est

\* faulty variant: one exchange with the best child, then stop
KHeap_heapify_down_one_level(h, i) ==
  IF KHeap_is_leaf(h, i) THEN h
  ELSE LET comp_est == KHeap_scan(h, i, 0, i)
       IN  IF i = comp_est THEN h ELSE swap_nodes(h, i, comp_est)

RECURSIVE KHeap_heapify_down(_, _)
KHeap_heapify_down(h, i) ==
  IF KHeap_is_leaf(h, i) THEN h
  ELSE LET comp_est == KHeap_scan(h, i, 0, i)
       IN  IF i = comp_est THEN h
           ELSE KHeap_heapify_down(swap_nodes(h, i, comp_est), comp_est)

heapify_down(h, i) ==
  IF h.K = 2 THEN BinaryHeap_heapify_down(h, i) ELSE KHeap_heapify_down(h, i)

\* faulty variant: the loop stops before it reaches the root
RECURSIVE build_loop_skips_root(_, _)
build_loop_skips_root(h, i) ==
  IF i > 1 THEN build_loop_skips_root(heapify_down(h, i - 1), i - 1) ELSE h

\* the loop "for (i = start; i > 0; --i) heapify_down(i - 1)"
RECURSIVE build_loop(_, _)
build_loop(h, i) == IF i > 0 THEN build_loop(heapify_down(h, i - 1), i - 1) ELSE h

BinaryHeap_build_heap(h) == build_loop(h, (size(h) \div 2) + 1)

KHeap_build_heap(h) == build_loop(h, (size(h) \div h.K) + 1)

build_heap(h) == IF h.K = 2 THEN BinaryHeap_build_heap(h) ELSE KHeap_build_heap(h)

\* faulty variant: the flag is read the wrong way round
Heap_init_flag_inverted(h, already) == IF already THEN build_heap(h) ELSE h

Heap_init(h, already) == IF ~already THEN build_heap(h) ELSE h

(***************************************************************************)
(* Heap: the public operations.                                            *)
(***************************************************************************)
\* precondition (assert): size() > 0
Heap_top(h) == At(h.nodes, 0)

\* faulty variant: the last node is copied to the root and not removed
Heap_pop_no_shrink(h) ==
  LET n == size(h)
      replaced == [h.nodes EXCEPT ![1] = h.nodes[n]]
  IN  heapify_down([h EXCEPT !.nodes = replaced], 0)

\* precondition (assert): size() > 0
Heap_pop(h) ==
  LET n == size(h)
      replaced == [h.nodes EXCEPT ![1] = h.nodes[n]]
      shrunk == SubSeq(replaced, 1, n - 1)
  IN  heapify_down([h EXCEPT !.nodes = shrunk], 0)

\* faulty variant: the new node is appended and not moved up
Heap_push_no_repair(h, v) == [h EXCEPT !.nodes = Append(h.nodes, v)]

Heap_push(h, v) ==
  LET index_to_fix == size(h)
  IN  heapify_up([h EXCEPT !.nodes = Append(h.nodes, v)], index_to_fix)

\* BinaryHeap(inputs, comp) / KHeap(inputs, comp) through the make_* factories
Heap_ctor(inputs, k, type, already) ==
  Heap_init([cls |-> "Heap", K |-> k, HeapType |-> type, nodes |-> inputs,
             key_map |-> EmptyMap, index_map |-> EmptyMap], already)

(***************************************************************************)
(* PriorityQueue.                                                          *)
(***************************************************************************)
\* the loop of build_key_map over node_list, from position index on
RECURSIVE build_key_map_loop(_, _, _, _)
build_key_map_loop(keys, node_list, index, local_key_map) ==
  IF index < Len(node_list)
    THEN build_key_map_loop(keys, node_list, index + 1,
                            MapPut(local_key_map, At(node_list, index), At(keys, index)))
    ELSE local_key_map

\* faulty variant: index is never advanced, every node gets the first key
build_key_map_index_stuck(keys, node_list) ==
  [node \in {node_list[i] : i \in DOMAIN node_list} |-> At(keys, 0)]

\* precondition (assert): keys.size() == node_list.size()
build_key_map(keys, node_list) == build_key_map_loop(keys, node_list, 0, EmptyMap)

RECURSIVE build_index_map_loop(_, _, _)
build_index_map_loop(node_list, index, local_index_map) ==
  IF index < Len(node_list)
    THEN build_index_map_loop(node_list, index + 1,
                              MapPut(local_index_map, At(node_list, index), index))
    ELSE local_index_map

build_index_map(node_list) == build_index_map_loop(node_list, 0, EmptyMap)

\* PriorityQueue(keys, inputs, comp_factory) through the make_*_priority_queue
\* factories: the maps are built first, then init() binds comp and runs Heap::init
PQ_ctor(keys, inputs, k, type, already) ==
  Heap_init([cls |-> "PriorityQueue", K |-> k, HeapType |-> type, nodes |-> inputs,
             key_map |-> build_key_map(keys, inputs),
             index_map |-> build_index_map(inputs)], already)

PQ_push(h, key, element) ==
  LET index_to_fix == size(h)
      h1 == [h EXCEPT !.index_map = MapPut(h.index_map, element, index_to_fix),
                      !.key_map = MapPut(h.key_map, element, key)]
  IN  Heap_push(h1, element)

\* faulty variant: the two repairs are attached to the wrong heap types
PQ_update_key_repairs_exchanged(h, key, element) ==
  LET index_to_fix == h.index_map[element]
      h1 == [h EXCEPT !.key_map = [h.key_map EXCEPT ![element] = key]]
  IN  IF h.HeapType = "min_heap" THEN heapify_down(h1, index_to_fix)
                                 ELSE heapify_up(h1, index_to_fix)

\* precondition: element present (index_map.at / key_map.at throw otherwise)
PQ_update_key(h, key, element) ==
  LET index_to_fix == h.index_map[element]
      h1 == [h EXCEPT !.key_map = [h.key_map EXCEPT ![element] = key]]
  IN  IF h.HeapType = "min_heap" THEN heapify_up(h1, index_to_fix)
                                 ELSE heapify_down(h1, index_to_fix)

key_at(h, element) == h.key_map[element]

contains(h, element) == element \in DOMAIN h.index_map

PQ_top(h) == Heap_top(h)

\* faulty variant: the key of the root paired with the last node
PQ_top_key_value_back(h) ==
  LET top_value == Heap_top(h)
      top_key == key_at(h, top_value)
  IN  <<top_key, At(h.nodes, size(h) - 1)>>

PQ_top_key_value(h) ==
  LET top_value == Heap_top(h)
      top_key == key_at(h, top_value)
  IN  <<top_key, top_value>>

\* faulty variant: the popped element keeps its key_map entry
PQ_pop_keeps_key(h) ==
  LET node == At(h.nodes, 0)
      n == size(h)
      h1 == [h EXCEPT !.index_map = MapErase(h.index_map, node)]
      replaced == [h1.nodes EXCEPT ![1] = h1.nodes[n]]
      h2 == [h1 EXCEPT !.nodes = SubSeq(replaced, 1, n - 1)]
  IN  IF size(h2) > 0
        THEN LET front == At(h2.nodes, 0)
                 h3 == [h2 EXCEPT !.index_map = [h2.index_map EXCEPT ![front] = 0]]
             IN  heapify_down(h3, 0)
        ELSE h2

\* faulty variant: the popped element keeps its index_map entry
PQ_pop_keeps_index(h) ==
  LET node == At(h.nodes, 0)
      n == size(h)
      h1 == [h EXCEPT !.key_map = MapErase(h.key_map, node)]
      replaced == [h1.nodes EXCEPT ![1] = h1.nodes[n]]
      h2 == [h1 EXCEPT !.nodes = SubSeq(replaced, 1, n - 1)]
  IN  IF size(h2) > 0
        THEN LET front == At(h2.nodes, 0)
                 h3 == [h2 EXCEPT !.index_map = [h2.index_map EXCEPT ![front] = 0]]
             IN  heapify_down(h3, 0)
        ELSE h2

\* precondition (assert): size() > 0
PQ_pop(h) ==
  LET node == At(h.nodes, 0)
      n == size(h)
      h1 == [h EXCEPT !.index_map = MapErase(h.index_map, node),
                      !.key_map = MapErase(h.key_map, node)]
      replaced == [h1.nodes EXCEPT ![1] = h1.nodes[n]]
      h2 == [h1 EXCEPT !.nodes = SubSeq(replaced, 1, n - 1)]
  IN  IF size(h2) > 0
        THEN LET front == At(h2.nodes, 0)
                 h3 == [h2 EXCEPT !.index_map = [h2.index_map EXCEPT ![front] = 0]]
             IN  heapify_down(h3, 0)
        ELSE h2

(***************************************************************************)
(* Calls together with the checks that guard them.  The BUILD file's COPTS *)
(* do not define NDEBUG, so every assert is compiled in: a failed assert   *)
(* aborts the process.  std::unordered_map::at throws std::out_of_range    *)
(* for a missing element, before anything is written.                      *)
(***************************************************************************)
Returned == "returned"
AssertionFailure == "assertion failure"
OutOfRange == "std::out_of_range"

\* how a call ended and the object it left
Outcome(s, h) == [signal |-> s, self |-> h]

\* faulty variant: no assert, so nodes.at(0) throws on the empty vector
Heap_top_call_unchecked(h) ==
  IF size(h) > 0 THEN Outcome(Returned, h) ELSE Outcome(OutOfRange, h)

Heap_top_call(h) ==
  IF size(h) > 0 THEN Outcome(Returned, h) ELSE Outcome(AssertionFailure, h)

Heap_pop_call(h) ==
  IF size(h) > 0 THEN Outcome(Returned, Heap_pop(h)) ELSE Outcome(AssertionFailure, h)

PQ_top_call(h) == Heap_top_call(h)

\* super::top() asserts, then key_at(top_value) reads key_map.at
PQ_top_key_value_call(h) ==
  IF size(h) = 0 THEN Outcome(AssertionFailure, h)
  ELSE IF Heap_top(h) \in DOMAIN h.key_map THEN Outcome(Returned, h)
  ELSE Outcome(OutOfRange, h)

PQ_pop_call(h) ==
  IF size(h) > 0 THEN Outcome(Returned, PQ_pop(h)) ELSE Outcome(AssertionFailure, h)

\* faulty variant: the key is written with operator[] before index_map.at
\* is asked for the element
PQ_update_key_call_writes_first(h, key, element) ==
  IF element \in DOMAIN h.index_map /\ element \in DOMAIN h.key_map
    THEN Outcome(Returned, PQ_update_key(h, key, element))
    ELSE Outcome(OutOfRange, [h EXCEPT !.key_map = MapPut(h.key_map, element, key)])

\* index_map.at(element), then key_map.at(element) = key, then the repair
PQ_update_key_call(h, key, element) ==
  IF element \in DOMAIN h.index_map /\ element \in DOMAIN h.key_map
    THEN Outcome(Returned, PQ_update_key(h, key, element))
    ELSE Outcome(OutOfRange, h)

\* key_map.at(element)
PQ_key_at_call(h, element) ==
  IF element \in DOMAIN h.key_map THEN Outcome(Returned, h) ELSE Outcome(OutOfRange, h)

(***************************************************************************)
(* The drain loops of the tests and of the README.                         *)
(***************************************************************************)
\* while (!heap.empty()) { x = heap.top(); heap.pop(); }: the values of x
RECURSIVE drain_heap(_)
drain_heap(h) ==
  IF empty(h) THEN <<>> ELSE <<Heap_top(h)>> \o drain_heap(Heap_pop(h))

\* while (!pq.empty()) { kv = pq.top_key_value(); pq.pop(); }: the pairs kv
RECURSIVE drain_pq(_)
drain_pq(h) ==
  IF empty(h) THEN <<>> ELSE <<PQ_top_key_value(h)>> \o drain_pq(PQ_pop(h))

(***************************************************************************)
(* Inputs.                                                                 *)
(***************************************************************************)
SeqsUpTo(S, n) == UNION {[1..m -> S] : m \in 0..n}

Injective(s) == \A i, j \in DOMAIN s : s[i] = s[j] => i = j

\* element vectors without repetition (the supported use of PriorityQueue)
DistinctSeqs == {s \in SeqsUpTo(Elems, NumElems) : Injective(s)}

HeapTypes == {"min_heap", "max_heap"}

\* priority of a stored node: itself in a plain heap, its key in a queue
Prio(h, x) == IF h.cls = "Heap" THEN x ELSE h.key_map[x]

\* the order a vector must have to be passed with IsAlreadyHeap = true:
\* no child before its parent (children of i are K*i + 1 .. K*i + K)
Ordered(h) ==
  \A i \in 0..(size(h) - 1) : \A c \in (h.K * i + 1)..(h.K * i + h.K) :
    c < size(h) =>
      IF h.HeapType = "min_heap" THEN Prio(h, At(h.nodes, i)) <= Prio(h, At(h.nodes, c))
                                 ELSE Prio(h, At(h.nodes, i)) >= Prio(h, At(h.nodes, c))

\* the object before Heap::init runs
RawHeap(inputs, k, type) ==
  [cls |-> "Heap", K |-> k, HeapType |-> type, nodes |-> inputs,
   key_map |-> EmptyMap, index_map |-> EmptyMap]

RawPQ(keys, inputs, k, type) ==
  [cls |-> "PriorityQueue", K |-> k, HeapType |-> type, nodes |-> inputs,
   key_map |-> build_key_map(keys, inputs), index_map |-> build_index_map(inputs)]

Range(s) == {s[i] : i \in DOMAIN s}

\* the bag of the entries of a sequence
RECURSIVE BagOfSeq(_)
BagOfSeq(s) == IF s = <<>> THEN EmptyBag ELSE BagOfSeq(Tail(s)) (+) SetToBag({Head(s)})

\* aligned keys/elements without repeated elements, as a map element -> key
PairsOf(keys, inputs) ==
  [e \in Range(inputs) |-> keys[CHOOSE i \in DOMAIN inputs : inputs[i] = e]]

Args(keys, inputs, already) ==
  [keys |-> keys, inputs |-> inputs, IsAlreadyHeap |-> already]

NoArgs == Args(<<>>, <<>>, FALSE)

(***************************************************************************)
(* Initial states: the outcome of the constructor call.  With              *)
(* IsAlreadyHeap the caller passes a vector that already is a heap.        *)
(***************************************************************************)
\* key vectors whose length is not the element vector's; build_key_map's
\* assert reads only the two sizes, so one key value stands for all
MismatchedKeys(inputs) ==
  {[i \in 1..m |-> 0] : m \in (0..NumElems) \ {Len(inputs)}}

\* what exists after an assert of the constructor failed: no object
NoObject(c, k, type) ==
  [cls |-> c, K |-> k, HeapType |-> type, nodes |-> <<>>,
   key_map |-> EmptyMap, index_map |-> EmptyMap]

\* faulty variant: the check only asks for enough keys
PQ_ctor_call_enough_keys(keys, inputs, k, type, already) ==
  IF Len(keys) >= Len(inputs)
    THEN Outcome(Returned, PQ_ctor(keys, inputs, k, type, already))
    ELSE Outcome(AssertionFailure, NoObject("PriorityQueue", k, type))

\* PriorityQueue(keys, inputs, comp_factory): build_key_map asserts
\* keys.size() == node_list.size() before any map is filled
PQ_ctor_call(keys, inputs, k, type, already) ==
  IF Len(keys) = Len(inputs)
    THEN Outcome(Returned, PQ_ctor(keys, inputs, k, type, already))
    ELSE Outcome(AssertionFailure, NoObject("PriorityQueue", k, type))

InitHeap ==
  \E k \in Arities, type \in HeapTypes, already \in BOOLEAN,
     inputs \in SeqsUpTo(Vals, MaxLen) :
    /\ already => Ordered(RawHeap(inputs, k, type))
    /\ \E h \in {Heap_ctor(inputs, k, type, already)} :
         /\ cls = "Heap"
         /\ K = k
         /\ HeapType = type
         /\ nodes = h.nodes
         /\ key_map = h.key_map
         /\ index_map = h.index_map
    /\ ctor_args = Args(<<>>, inputs, already)
    /\ live = BagOfSeq(inputs)
    /\ trail = "ctor"
    /\ signal = Returned

InitPQ ==
  \E k \in Arities, type \in HeapTypes, already \in BOOLEAN, inputs \in DistinctSeqs :
    \E keys \in [1..Len(inputs) -> Keys] \cup MismatchedKeys(inputs) :
      /\ (already /\ Len(keys) = Len(inputs)) => Ordered(RawPQ(keys, inputs, k, type))
      /\ \E r \in {PQ_ctor_call(keys, inputs, k, type, already)} :
           /\ cls = "PriorityQueue"
           /\ K = k
           /\ HeapType = type
           /\ nodes = r.self.nodes
           /\ key_map = r.self.key_map
           /\ index_map = r.self.index_map
           /\ signal = r.signal
           /\ live = IF r.signal = Returned THEN PairsOf(keys, inputs) ELSE EmptyMap
           /\ trail = IF r.signal = Returned THEN "ctor" ELSE "rejected"
      /\ ctor_args = Args(keys, inputs, already)

\* no call is in progress
Idle == [pc |-> "idle", i |-> 0, n |-> 0, ret |-> "idle"]

\* nothing is observed
Unseen == [op |-> "none", key |-> 0, element |-> 0, pre |-> <<>>,
           reads |-> {}, lookups |-> {}, comps |-> 0, swap |-> <<>>,
           start |-> -1, sound |-> FALSE]

Init ==
  /\ InitHeap \/ InitPQ
  /\ monotone = TRUE
  /\ frame = Idle
  /\ seen = Unseen

(***************************************************************************)
(* Actions: one per public operation.  After a failed assert the process   *)
(* is gone; after an exception the caller may go on.                       *)
(***************************************************************************)
Running == signal # AssertionFailure

\* the call returned and left object h
Install(h) ==
  /\ nodes' = h.nodes
  /\ key_map' = h.key_map
  /\ index_map' = h.index_map
  /\ ctor_args' = NoArgs
  /\ signal' = Returned
  /\ UNCHANGED <<cls, K, HeapType, frame, seen>>

\* the call ended in the abort or the exception of outcome r, leaving the
\* object as it was when the check failed
Fail(r) ==
  /\ signal' = r.signal
  /\ nodes' = r.self.nodes
  /\ key_map' = r.self.key_map
  /\ index_map' = r.self.index_map
  /\ UNCHANGED <<cls, K, HeapType, ctor_args, trail, live, monotone, frame, seen>>

\* a call that only reads returned
Read ==
  /\ signal' = Returned
  /\ UNCHANGED <<cls, K, HeapType, nodes, key_map, index_map, ctor_args, trail, live,
                 monotone, frame, seen>>

\* heap.push(v) on a plain heap
HeapPush(v) ==
  /\ cls = "Heap" /\ Running
  /\ size(Self) < MaxLen
  /\ \E h \in {Heap_push(Self, v)} : Install(h)
  /\ live' = live (+) SetToBag({v})
  /\ trail' = IF (trail = "ctor" /\ nodes = <<>>) \/ trail = "pushes"
                THEN "pushes" ELSE "other"
  /\ UNCHANGED monotone

\* heap.top() on a plain heap
HeapTop ==
  /\ cls = "Heap" /\ Running
  /\ \E r \in {Heap_top_call(Self)} :
       IF r.signal = Returned THEN Read ELSE Fail(r)

\* heap.pop() on a plain heap: what top() shows is what leaves
HeapPop ==
  /\ cls = "Heap" /\ Running
  /\ \E r \in {Heap_pop_call(Self)} :
       IF r.signal = Returned
         THEN /\ Install(r.self)
              /\ live' = live (-) SetToBag({Heap_top(Self)})
              /\ trail' = "other"
              /\ UNCHANGED monotone
         ELSE Fail(r)

\* pq.push(key, element), element not yet in the queue
Push(key, element) ==
  /\ cls = "PriorityQueue" /\ Running
  /\ ~contains(Self, element)
  /\ \E h \in {PQ_push(Self, key, element)} : Install(h)
  /\ live' = MapPut(live, element, key)
  /\ trail' = IF (trail = "ctor" /\ nodes = <<>>) \/ trail = "pushes"
                THEN "pushes" ELSE "other"
  /\ UNCHANGED monotone

\* the direction update_key documents: decrease in a min queue, increase in a max queue
Permitted(h, key, element) ==
  IF h.HeapType = "min_heap" THEN key <= key_at(h, element) ELSE key >= key_at(h, element)

\* pq.update_key(key, element), any element, any key
UpdateKey(key, element) ==
  /\ cls = "PriorityQueue" /\ Running
  /\ \E r \in {PQ_update_key_call(Self, key, element)} :
       IF r.signal = Returned
         THEN /\ Install(r.self)
              /\ live' = MapPut(live, element, key)
              /\ trail' = IF trail \in {"ctor", "updates"} THEN "updates" ELSE "other"
              /\ monotone' = (monotone /\ Permitted(Self, key, element))
         ELSE Fail(r)

\* pq.key_at(element), any element
KeyAt(element) ==
  /\ cls = "PriorityQueue" /\ Running
  /\ \E r \in {PQ_key_at_call(Self, element)} :
       IF r.signal = Returned THEN Read ELSE Fail(r)

\* pq.top() and pq.top_key_value()
Top ==
  /\ cls = "PriorityQueue" /\ Running
  /\ \E r \in {PQ_top_call(Self), PQ_top_key_value_call(Self)} :
       IF r.signal = Returned THEN Read ELSE Fail(r)

\* pq.pop(): what top() shows is what leaves
Pop ==
  /\ cls = "PriorityQueue" /\ Running
  /\ \E r \in {PQ_pop_call(Self)} :
       IF r.signal = Returned
         THEN /\ Install(r.self)
              /\ live' = MapErase(live, PQ_top(Self))
              /\ trail' = "other"
              /\ UNCHANGED monotone
         ELSE Fail(r)

Next ==
  \/ \E v \in Vals : HeapPush(v)
  \/ HeapTop
  \/ HeapPop
  \/ \E key \in Keys, element \in Elems : Push(key, element)
  \/ \E key \in Keys, element \in Elems : UpdateKey(key, element)
  \/ \E element \in Elems : KeyAt(element)
  \/ Top
  \/ Pop

Spec == Init /\ [][Next]_vars

(***************************************************************************)
(* Properties.                                                             *)
(***************************************************************************)
IsPQ == cls = "PriorityQueue"

IsMin == HeapType = "min_heap"

\* C1: in a queue of distinct elements, after construction and after every
\* completed push, pop and update_key, index_map[e] is the position of e in
\* nodes, for every element e of the queue.
C1_IndexMapIsPosition ==
  IsPQ => \A i \in 0..(Len(nodes) - 1) :
            /\ At(nodes, i) \in DOMAIN index_map
            /\ index_map[At(nodes, i)] = i

\* a queue that went through pushes/pops/updates and whose elements are not
\* in the order of their names any more
C1_Witness ==
  /\ IsPQ
  /\ trail = "other"
  /\ Len(nodes) = 3
  /\ At(nodes, 0) > At(nodes, 1)
  /\ index_map[At(nodes, 2)] = 2

\* C2: in a queue of distinct elements, after construction and after every
\* completed push, pop and update_key, key_map, index_map and nodes hold the
\* same set of elements, and each map has size() entries.
C2_MapsMatchNodes ==
  IsPQ => /\ DOMAIN key_map = Range(nodes)
          /\ DOMAIN index_map = Range(nodes)
          /\ Cardinality(DOMAIN key_map) = Len(nodes)
          /\ Cardinality(DOMAIN index_map) = Len(nodes)

\* a queue from which something was popped and that still holds two elements
C2_Witness ==
  /\ IsPQ
  /\ trail = "other"
  /\ Len(nodes) = 2
  /\ DOMAIN live = Range(nodes)
  /\ DOMAIN key_map # Elems

\* C3: in a min queue, after construction and any sequence of push, pop and
\* update_key calls that never raise a key, every non-root position i has
\* key(nodes[parent(i)]) <= key(nodes[i]).
C3_MinHeapOrder ==
  (IsPQ /\ IsMin /\ monotone) =>
    \A i \in 1..(Len(nodes) - 1) :
      key_map[At(nodes, (i - 1) \div K)] <= key_map[At(nodes, i)]

\* a min queue, after key-lowering updates only, with three different keys
C3_Witness ==
  /\ IsPQ /\ IsMin /\ monotone
  /\ trail = "updates"
  /\ Len(nodes) = 3
  /\ Cardinality({key_map[e] : e \in DOMAIN key_map}) = 3

\* C4 (as claimed): in a max queue, after construction and any sequence of
\* push, pop and update_key calls that never lower a key, every non-root
\* position i has key(nodes[parent(i)]) >= key(nodes[i]).
C4_MaxHeapOrder ==
  (IsPQ /\ ~IsMin /\ monotone) =>
    \A i \in 1..(Len(nodes) - 1) :
      key_map[At(nodes, (i - 1) \div K)] >= key_map[At(nodes, i)]

(***************************************************************************)
(* Reference values for the drain laws.                                    *)
(***************************************************************************)
\* the pairs <<key, element>> of a map element -> key
PairSet(m) == {<<m[e], e>> : e \in DOMAIN m}

\* the pairs <<keys[i], inputs[i]>> of two aligned vectors
AlignedPairs(keys, inputs) == {<<keys[i], inputs[i]>> : i \in DOMAIN inputs}

NonDecreasingKeys(d) == \A i, j \in DOMAIN d : i < j => d[i][1] <= d[j][1]

NonIncreasingKeys(d) == \A i, j \in DOMAIN d : i < j => d[i][1] >= d[j][1]

\* d lists every pair of P exactly once
ListsOnce(d, P) == Range(d) = P /\ Len(d) = Cardinality(P)

(***************************************************************************)
(* The README's queues ("Example usage of PriorityQueue").                 *)
(***************************************************************************)
min_pq1 ==
  PQ_ctor(<<5, 4, 1, 3, 6, 0, 2>>, <<"m", "i", "n", "h", "e", "a", "p">>,
          2, "min_heap", FALSE)

min_pq1_K4 ==
  PQ_ctor(<<5, 4, 1, 3, 6, 0, 2>>, <<"m", "i", "n", "h", "e", "a", "p">>,
          4, "min_heap", FALSE)

min_pq1_output ==
  <<<<0, "a">>, <<1, "n">>, <<2, "p">>, <<3, "h">>, <<4, "i">>, <<5, "m">>, <<6, "e">>>>

min_pq2_update ==
  PQ_update_key(
    PQ_update_key(
      PQ_ctor(<<0, 2, 4, 6, 8, 10, 12>>, <<"m", "i", "n", "h", "e", "a", "p">>,
              2, "min_heap", TRUE),
      5, "e"),
    1, "p")

min_pq2_update_K5 ==
  PQ_update_key(
    PQ_update_key(
      PQ_ctor(<<0, 2, 4, 6, 8, 10, 12>>, <<"m", "i", "n", "h", "e", "a", "p">>,
              5, "min_heap", TRUE),
      5, "e"),
    1, "p")

min_pq2_update_output ==
  <<<<0, "m">>, <<1, "p">>, <<2, "i">>, <<4, "n">>, <<5, "e">>, <<6, "h">>, <<10, "a">>>>

\* the README's first example, on a binary and on a 4-ary heap
ReadmeSortedExtraction ==
  /\ drain_pq(min_pq1) = min_pq1_output
  /\ drain_pq(min_pq1_K4) = min_pq1_output

\* the README's update_key example, on a binary and on a 5-ary heap
ReadmeUpdateKey ==
  /\ drain_pq(min_pq2_update) = min_pq2_update_output
  /\ drain_pq(min_pq2_update_K5) = min_pq2_update_output

\* C5: a queue built from aligned keys/elements (distinct elements) and
\* drained by top_key_value() + pop() yields every input pair exactly once,
\* in non-decreasing key order for a min queue and non-increasing key order
\* for a max queue; the README's min_pq1 pops (0,a),(1,n),(2,p),(3,h),(4,i),
\* (5,m),(6,e).
C5_SortedExtraction ==
  /\ (IsPQ /\ trail = "ctor") =>
       LET d == drain_pq(Self)
       IN  /\ ListsOnce(d, AlignedPairs(ctor_args.keys, ctor_args.inputs))
           /\ IF IsMin THEN NonDecreasingKeys(d) ELSE NonIncreasingKeys(d)
  /\ ReadmeSortedExtraction

\* a freshly built min queue whose three keys were given in no order
C5_Witness ==
  /\ IsPQ /\ IsMin
  /\ trail = "ctor"
  /\ ~ctor_args.IsAlreadyHeap
  /\ ctor_args.keys = <<2, 0, 1>>
  /\ drain_pq(Self) = <<<<0, ctor_args.inputs[2]>>, <<1, ctor_args.inputs[3]>>,
                        <<2, ctor_args.inputs[1]>>>>

\* C6: in a min queue whose update_key calls all lowered (or kept) keys,
\* draining yields every element once, paired with its latest key, in
\* non-decreasing order of those keys; the README's min_pq2_update pops
\* (0,m),(1,p),(2,i),(4,n),(5,e),(6,h),(10,a).
C6_DrainAfterDecreaseKey ==
  /\ (IsPQ /\ IsMin /\ monotone) =>
       LET d == drain_pq(Self)
       IN  /\ ListsOnce(d, PairSet(live))
           /\ NonDecreasingKeys(d)
  /\ ReadmeUpdateKey

\* a min queue after key-lowering updates only, whose last element now has
\* the least key and leaves first
C6_Witness ==
  /\ IsPQ /\ IsMin /\ monotone
  /\ trail = "updates"
  /\ Len(nodes) = 3
  /\ live = [e \in {1, 2, 3} |-> IF e = 3 THEN 0 ELSE e]
  /\ drain_pq(Self) = <<<<0, 3>>, <<1, 1>>, <<2, 2>>>>

(***************************************************************************)
(* Plain heaps: reference order and the vectors of the test suite.         *)
(***************************************************************************)
\* the values of bag b in ascending (asc) or descending order
RECURSIVE SortBag(_, _)
SortBag(b, asc) ==
  IF b = EmptyBag THEN <<>>
  ELSE LET S == BagToSet(b)
           x == IF asc THEN CHOOSE v \in S : \A w \in S : v <= w
                       ELSE CHOOSE v \in S : \A w \in S : v >= w
       IN  <<x>> \o SortBag(b (-) SetToBag({x}), asc)

\* for (v : vs) heap.push(v)
RECURSIVE push_all(_, _)
push_all(h, vs) == IF vs = <<>> THEN h ELSE push_all(Heap_push(h, Head(vs)), Tail(vs))

test_vector == <<30, 1, 50, 20, 40, 60, 100>>

test_vector_K8Max == <<30, 1, 50, 20, 80, 60, 100>>

already_min_seed == <<0, 1, 2, 3, 4, 5, 6, 7, 8>>

already_max_seed == <<8, 7, 6, 5, 4, 3, 2, 1, 0>>

\* the WorksIfFull tests
WorksIfFull ==
  /\ drain_heap(Heap_ctor(test_vector, 2, "min_heap", FALSE)) = <<1, 20, 30, 40, 50, 60, 100>>
  /\ drain_heap(Heap_ctor(test_vector, 2, "max_heap", FALSE)) = <<100, 60, 50, 40, 30, 20, 1>>
  /\ drain_heap(Heap_ctor(test_vector, 4, "min_heap", FALSE)) = <<1, 20, 30, 40, 50, 60, 100>>
  /\ drain_heap(Heap_ctor(test_vector, 8, "min_heap", FALSE)) = <<1, 20, 30, 40, 50, 60, 100>>
  /\ drain_heap(Heap_ctor(test_vector, 4, "max_heap", FALSE)) = <<100, 60, 50, 40, 30, 20, 1>>
  /\ drain_heap(Heap_ctor(test_vector_K8Max, 8, "max_heap", FALSE))
       = <<100, 80, 60, 50, 30, 20, 1>>

\* the WorksIfEmpty tests
WorksIfEmpty ==
  /\ \A k \in {2, 4, 8} :
       LET h == push_all(Heap_ctor(<<>>, k, "min_heap", FALSE), test_vector)
       IN  /\ ~empty(h)
           /\ size(h) = Len(test_vector)
           /\ drain_heap(h) = <<1, 20, 30, 40, 50, 60, 100>>
  /\ \A k \in {2, 4} :
       LET h == push_all(Heap_ctor(<<>>, k, "max_heap", FALSE), test_vector)
       IN  /\ ~empty(h)
           /\ size(h) = Len(test_vector)
           /\ drain_heap(h) = <<100, 60, 50, 40, 30, 20, 1>>
  /\ LET h == push_all(Heap_ctor(<<>>, 8, "max_heap", FALSE), test_vector_K8Max)
     IN  drain_heap(h) = <<100, 80, 60, 50, 30, 20, 1>>

\* the WorksIfAlreadyHeap tests, and the same seeds built with the build step
WorksIfAlreadyHeap ==
  \A k \in {2, 4, 8} :
    /\ drain_heap(Heap_ctor(already_min_seed, k, "min_heap", TRUE)) = already_min_seed
    /\ drain_heap(Heap_ctor(already_max_seed, k, "max_heap", TRUE)) = already_max_seed
    /\ Heap_ctor(already_min_seed, k, "min_heap", FALSE)
         = Heap_ctor(already_min_seed, k, "min_heap", TRUE)
    /\ Heap_ctor(already_max_seed, k, "max_heap", FALSE)
         = Heap_ctor(already_max_seed, k, "max_heap", TRUE)

IsHeap == cls = "Heap"

\* C7: a plain heap built (build step enabled) from any vector, duplicates
\* allowed, has size() = the vector's length and, drained by top() + pop(),
\* returns the vector's values in ascending order (min heap) or descending
\* order (max heap), for BinaryHeap and KHeap (K = 4 and K = 8 included).
C7_HeapSortsItsInput ==
  /\ (IsHeap /\ trail = "ctor" /\ ~ctor_args.IsAlreadyHeap) =>
       /\ size(Self) = Len(ctor_args.inputs)
       /\ drain_heap(Self) = SortBag(BagOfSeq(ctor_args.inputs), IsMin)
  /\ WorksIfFull

\* a freshly built max binary heap of five values with a duplicate, not given in order
C7_Witness ==
  /\ IsHeap /\ ~IsMin /\ K = 2
  /\ trail = "ctor"
  /\ ctor_args = Args(<<>>, <<1, 0, 2, 1, 2>>, FALSE)
  /\ drain_heap(Self) = <<2, 2, 1, 1, 0>>

\* C8: pushing n values one at a time into a heap built empty makes empty()
\* false and size() = n, and draining then returns the pushed values in
\* ascending (min heap) or descending (max heap) order.
C8_PushThenDrain ==
  /\ (IsHeap /\ trail = "pushes") =>
       /\ ~empty(Self)
       /\ size(Self) = BagCardinality(live)
       /\ drain_heap(Self) = SortBag(live, IsMin)
  /\ WorksIfEmpty

\* a min 3-ary heap built empty, after five pushes, with 0 arriving last
C8_Witness ==
  /\ IsHeap /\ IsMin /\ K = 3
  /\ trail = "pushes"
  /\ size(Self) = 5
  /\ At(nodes, 1) = 1
  /\ live = BagOfSeq(<<2, 2, 1, 2, 0>>)
  /\ drain_heap(Self) = <<0, 1, 2, 2, 2>>

\* the object the same constructor call yields with IsAlreadyHeap = false
BuiltWithBuildStep ==
  IF IsHeap THEN Heap_ctor(ctor_args.inputs, K, HeapType, FALSE)
            ELSE PQ_ctor(ctor_args.keys, ctor_args.inputs, K, HeapType, FALSE)

drain(h) == IF h.cls = "Heap" THEN drain_heap(h) ELSE drain_pq(h)

\* C9: for an input that already is a heap for the comparator and arity,
\* construction with IsAlreadyHeap = true and with IsAlreadyHeap = false give
\* the same backing sequence and the same pop order (ties included).
C9_AlreadyHeapEquivalence ==
  /\ (trail = "ctor" /\ ctor_args.IsAlreadyHeap) =>
       /\ BuiltWithBuildStep.nodes = nodes
       /\ BuiltWithBuildStep = Self
       /\ drain(BuiltWithBuildStep) = drain(Self)
  /\ WorksIfAlreadyHeap

\* a min queue passed as already a heap, whose three elements have equal keys
C9_Witness ==
  /\ IsPQ /\ IsMin
  /\ trail = "ctor"
  /\ ctor_args = Args(<<1, 1, 1>>, <<2, 3, 1>>, TRUE)
  /\ nodes = <<2, 3, 1>>
  /\ drain_pq(Self) = <<<<1, 2>>, <<1, 1>>, <<1, 3>>>>

\* the binary heap built from the same vector with the same comparator
BinaryTwin == Heap_ctor(ctor_args.inputs, 2, HeapType, FALSE)

\* the test suite's vector in 4-ary and 8-ary heaps against the binary heap
TestVectorKaryMatchesBinary ==
  \A k \in {4, 8}, type \in HeapTypes :
    drain_heap(Heap_ctor(test_vector, k, type, FALSE))
      = drain_heap(Heap_ctor(test_vector, 2, type, FALSE))

\* the arities the README and the tests instantiate KHeap with
UsedArities == {4, 5, 8}

\* every bounded vector in a KHeap of those arities against the binary heap
UsedAritiesMatchBinary ==
  \A type \in HeapTypes, inputs \in SeqsUpTo(Vals, MaxLen) :
    LET binary == drain_heap(Heap_ctor(inputs, 2, type, FALSE))
    IN  \A k \in UsedArities : drain_heap(Heap_ctor(inputs, k, type, FALSE)) = binary

\* C10: a KHeap<K> (K > 2) and a BinaryHeap built from the same vector with
\* the same comparator return the same values from top() when drained, even
\* where their backing sequences differ.
C10_KaryMatchesBinary ==
  /\ (IsHeap /\ trail = "ctor" /\ K > 2 /\ ~ctor_args.IsAlreadyHeap) =>
       drain_heap(Self) = drain_heap(BinaryTwin)
  /\ TestVectorKaryMatchesBinary
  /\ UsedAritiesMatchBinary

\* a freshly built 3-ary heap of five values whose backing sequence is not
\* the binary heap's
C10_Witness ==
  /\ IsHeap /\ K = 3
  /\ trail = "ctor"
  /\ ~ctor_args.IsAlreadyHeap
  /\ Len(nodes) = 5
  /\ nodes # BinaryTwin.nodes
  /\ drain_heap(Self) = drain_heap(BinaryTwin)

(***************************************************************************)
(* Reads of the queue.                                                     *)
(***************************************************************************)
\* C11: on a non-empty min queue reached by push, pop and key-lowering
\* update_key calls, top_key_value() returns (k, e) with e = top() = the
\* node at position 0, k = the key last given to e, and k <= the key of
\* every element in the queue.
C11_TopKeyValueIsLeast ==
  (IsPQ /\ IsMin /\ monotone /\ nodes # <<>>) =>
    LET kv == PQ_top_key_value(Self)
    IN  /\ PQ_top_key_value_call(Self).signal = Returned
        /\ kv[2] = PQ_top(Self)
        /\ kv[2] = At(nodes, 0)
        /\ kv[1] = key_at(Self, kv[2])
        /\ kv[1] = live[kv[2]]
        /\ \A e \in DOMAIN live : kv[1] <= live[e]

\* a 3-ary min queue of three elements after pops, pushes or lowered keys,
\* whose root has the strictly least key
C11_Witness ==
  /\ IsPQ /\ IsMin /\ monotone
  /\ K = 3
  /\ trail = "other"
  /\ Len(nodes) = 3
  /\ PQ_top_key_value(Self) = <<0, 3>>
  /\ \A e \in DOMAIN live \ {3} : live[e] > 0

\* C12: contains(e) is true exactly when e was given to the constructor or
\* pushed and has not been removed by a pop since: push(key, e) makes it
\* true, the pop that finds e at the root makes it false, and update_key
\* and pops of other elements leave it as it is.
C12_ContainsIffLive ==
  IsPQ => \A e \in Elems : contains(Self, e) <=> e \in DOMAIN live

\* a min queue after pops and other calls: elements 1 and 3 are in with
\* the keys last given to them, element 2 is not
C12_Witness ==
  /\ IsPQ
  /\ trail = "other"
  /\ contains(Self, 1) /\ ~contains(Self, 2) /\ contains(Self, 3)
  /\ live = (1 :> 2 @@ 3 :> 0)
  /\ nodes = <<3, 1>>
  /\ HeapType = "min_heap"

\* C13: for every element e in the queue, key_at(e) returns the key last
\* given to e by the constructor, push(key, e) or update_key(key, e); the
\* swaps of a repair and calls about other elements never change it.
C13_KeyAtIsLatestKey ==
  IsPQ => \A e \in Range(nodes) :
            /\ PQ_key_at_call(Self, e).signal = Returned
            /\ key_at(Self, e) = live[e]

\* a 3-ary max queue holding 1, 2, 3 in another order than <<1, 2, 3>>,
\* after the constructor and update_key calls only
C13_Witness ==
  /\ IsPQ /\ ~IsMin /\ K = 3
  /\ trail = "updates"
  /\ Range(nodes) = {1, 2, 3}
  /\ nodes # <<1, 2, 3>>
  /\ key_at(Self, 1) = 2 /\ key_at(Self, 2) = 1 /\ key_at(Self, 3) = 2

(***************************************************************************)
(* Shape.                                                                  *)
(***************************************************************************)
\* how many entries the caller put in and has not popped
LiveCount == IF IsHeap THEN BagCardinality(live) ELSE Cardinality(DOMAIN live)

\* C14: for Heap and PriorityQueue size() is the number of live elements:
\* the input length after construction, one more after each push, one less
\* after each pop, the same after update_key; empty() is true exactly when
\* size() = 0; the backing sequence fills positions 0..size()-1.
C14_SizeIsLiveCount ==
  /\ size(Self) = LiveCount
  /\ empty(Self) <=> (size(Self) = 0)
  /\ DOMAIN nodes = 1..size(Self)
  /\ (trail = "ctor") => size(Self) = Len(ctor_args.inputs)

\* a 3-ary queue after pushes or pops: two elements are live, the third
\* one is not, and size() is 2
C14_Witness ==
  /\ IsPQ /\ K = 3
  /\ trail = "other"
  /\ DOMAIN live = {1, 3}
  /\ size(Self) = 2
  /\ ~empty(Self)
  /\ signal = Returned

(***************************************************************************)
(* Violated preconditions.                                                 *)
(***************************************************************************)
\* the calls that read or remove the root, with the object they are made on
RootCalls ==
  IF IsHeap THEN {Heap_top_call(Self), Heap_pop_call(Self)}
            ELSE {PQ_top_call(Self), PQ_top_key_value_call(Self), PQ_pop_call(Self)}

\* C15: top() and pop() (and top_key_value()) on an empty Heap or
\* PriorityQueue end in an assertion failure at the call, and the failed
\* call leaves nodes, key_map and index_map as they were.
C15_EmptyTopPopAsserts ==
  /\ (Running /\ empty(Self)) => RootCalls = {Outcome(AssertionFailure, Self)}
  /\ (Running /\ ~empty(Self)) => \A r \in RootCalls : r.signal = Returned
  /\ (signal = AssertionFailure /\ trail # "rejected") =>
       /\ nodes = <<>>
       /\ key_map = EmptyMap
       /\ index_map = EmptyMap

\* a queue that was emptied by pops and then asked for its root
C15_Witness ==
  /\ IsPQ
  /\ trail = "other"
  /\ signal = AssertionFailure
  /\ empty(Self)
  /\ key_map = EmptyMap /\ index_map = EmptyMap

\* the elements that are not in the queue
Absent == Elems \ Range(nodes)

\* C16: update_key(key, e) and key_at(e) for an element e that is not in
\* the queue fail at once with an error signal (std::out_of_range) and
\* leave key_map, index_map and nodes unchanged: no entry is created for e
\* and the key is not written. The signal is raised for absent elements
\* only, and the queue it leaves behind still has no entry for them.
C16_AbsentElementThrows ==
  IsPQ =>
    /\ Running =>
         \A e \in Absent :
           /\ PQ_key_at_call(Self, e) = Outcome(OutOfRange, Self)
           /\ \A key \in Keys :
                PQ_update_key_call(Self, key, e) = Outcome(OutOfRange, Self)
    /\ (signal = OutOfRange) =>
         /\ Absent # {}
         /\ DOMAIN key_map = Range(nodes)
         /\ DOMAIN index_map = Range(nodes)

\* a queue holding elements 1 and 2 on which a call about a missing
\* element has just thrown
C16_Witness ==
  /\ IsPQ
  /\ signal = OutOfRange
  /\ Range(nodes) = {1, 2}
  /\ DOMAIN key_map = {1, 2}
  /\ DOMAIN index_map = {1, 2}
  /\ trail = "other"

\* C17: a PriorityQueue constructor given key and element sequences of
\* different lengths (keys shorter or longer) ends in an assertion failure;
\* no queue comes into existence, and every queue that exists was built
\* from as many keys as elements and has one key_map entry per element.
C17_MismatchedLengthsRejected ==
  IsPQ =>
    /\ (Len(ctor_args.keys) # Len(ctor_args.inputs)) =>
         /\ signal = AssertionFailure
         /\ trail = "rejected"
         /\ nodes = <<>> /\ key_map = EmptyMap /\ index_map = EmptyMap
    /\ (trail = "ctor") =>
         /\ Len(ctor_args.keys) = Len(ctor_args.inputs)
         /\ DOMAIN key_map = Range(ctor_args.inputs)
         /\ DOMAIN index_map = Range(ctor_args.inputs)

\* three keys for two elements: the constructor was stopped by the assert
C17_Witness ==
  /\ IsPQ
  /\ trail = "rejected"
  /\ signal = AssertionFailure
  /\ Len(ctor_args.keys) = 3
  /\ ctor_args.inputs = <<2, 1>>
  /\ nodes = <<>>

\* C18: a K-ary heap or K-ary priority queue with K = 1 or K = 2 (any
\* K <= 2) is rejected when it is constructed; only K > 2 yields a KHeap.
\* (An object of arity 2 is a BinaryHeap.)
C18_SmallArityRejected ==
  /\ \A k \in TriedArities : KHeap_enable_if(k) <=> k > 2
  /\ K \in Arities
  /\ (K # 2) => (K > 2 /\ KHeap_enable_if(K))

\* a 3-ary priority queue right after its constructor
C18_Witness ==
  /\ IsPQ
  /\ K = 3
  /\ KHeap_enable_if(K)
  /\ trail = "ctor"
  /\ signal = Returned
  /\ Len(nodes) = 3

(***************************************************************************)
(* Comparator polarity.                                                    *)
(***************************************************************************)
\* the comparator the plain heap was initialised with
Comparator == factory_comparator(HeapType)

TopIsSmallest == \A x \in Range(nodes) : Heap_top(Self) <= x

TopIsLargest == \A x \in Range(nodes) : Heap_top(Self) >= x

HeapProperty(h) ==
  \A i \in 1..(size(h) - 1) :
    ~comp(h, At(h.nodes, parent(h, i)), At(h.nodes, i))

\* C20: in a plain BinaryHeap or KHeap, after construction and after any
\* sequence of push and pop (on non-empty) calls, comp(nodes[parent(i)],
\* nodes[i]) is false for every non-root position i.
C20_PlainHeapOrder ==
  (IsHeap /\ Running) => HeapProperty(Self)

\* a 3-ary min heap after pushes and pops: root 0 with the children 2, 1, 1
C20_Witness ==
  /\ IsHeap /\ K = 3
  /\ HeapType = "min_heap"
  /\ trail = "other"
  /\ nodes = <<0, 2, 1, 1>>
  /\ signal = Returned

(***************************************************************************)
(* The calls followed statement by statement (StepSpec).  A call in        *)
(* progress stands at frame.pc: "init" before Heap::init, "build" at the   *)
(* for header of build_heap (frame.n is its loop variable), "down" and     *)
(* "up" at the while header of heapify_down and heapify_up (frame.i is the *)
(* loop variable, frame.ret where heapify_down returns to), "erased" and   *)
(* "moved" inside PriorityQueue::pop, "done" when the call is complete.    *)
(* heapify_down, heapify_up, build_heap and swap_nodes are noexcept: an    *)
(* exception of vector::at or unordered_map::at inside them ends the       *)
(* process through std::terminate.                                         *)
(***************************************************************************)
Terminated == "std::terminate"

Frame(pc, i, n, ret) == [pc |-> pc, i |-> i, n |-> n, ret |-> ret]

Done == Frame("done", 0, 0, "idle")

\* what one step passed to nodes.at (reads) and to key_map.at / index_map.at
\* (lookups), how often it called comp, and the swap_nodes call it made
Obs(reads, lookups, comps, swap) ==
  [reads |-> reads, lookups |-> lookups, comps |-> comps, swap |-> swap]

NoObs == Obs({}, {}, 0, <<>>)

\* nodes.at(i) returns
InRange(h, i) == i < size(h)

\* the elements a queue looks up in its maps when it handles the nodes at
\* the positions P (a plain heap has no maps)
ElementsAt(h, P) ==
  IF h.cls = "PriorityQueue" THEN {At(h.nodes, p) : p \in {q \in P : InRange(h, q)}}
                             ELSE {}

\* comp(nodes.at(i), nodes.at(j)) returns: both positions exist and, in a
\* queue, key_map.at finds both elements
Comparable(h, i, j) ==
  /\ InRange(h, i)
  /\ InRange(h, j)
  /\ ElementsAt(h, {i, j}) \subseteq DOMAIN h.key_map

\* swap_nodes(i, j) returns: both positions exist and, in a queue,
\* index_map.at finds both elements
Swappable(h, i, j) ==
  /\ InRange(h, i)
  /\ InRange(h, j)
  /\ ElementsAt(h, {i, j}) \subseteq DOMAIN h.index_map

is_leaf(h, i) == IF h.K = 2 THEN BinaryHeap_is_leaf(h, i) ELSE KHeap_is_leaf(h, i)

\* faulty variant: the right child is compared with node i, not with the
\* better of node i and the left child
BinaryHeap_pass_right_against_i(h, i) ==
  LET len == size(h)
      l == left(i)
      r == right(i)
      ok1 == (l < len) => Comparable(h, i, l)
      est1 == IF l < len /\ comp(h, At(h.nodes, i), At(h.nodes, l)) THEN l ELSE i
      ok2 == (r < len) => Comparable(h, i, r)
      comp_est == IF r < len /\ comp(h, At(h.nodes, i), At(h.nodes, r))
                    THEN r ELSE est1
  IN  [ok |-> ok1 /\ ok2,
       reads |-> (IF l < len THEN {i, l} ELSE {})
                   \cup (IF ok1 /\ r < len THEN {i, r} ELSE {}),
       comps |-> (IF l < len THEN 1 ELSE 0) + (IF ok1 /\ r < len THEN 1 ELSE 0),
       comp_est |-> IF ok1 /\ ok2 THEN comp_est ELSE i]

\* faulty variant: the left child is compared without the l < len test
BinaryHeap_pass_left_unguarded(h, i) ==
  LET len == size(h)
      l == left(i)
      r == right(i)
      ok1 == Comparable(h, i, l)
      est1 == IF ok1 /\ comp(h, At(h.nodes, i), At(h.nodes, l)) THEN l ELSE i
      ok2 == (r < len) => Comparable(h, est1, r)
      comp_est == IF r < len /\ comp(h, At(h.nodes, est1), At(h.nodes, r))
                    THEN r ELSE est1
  IN  [ok |-> ok1 /\ ok2,
       reads |-> {i, l} \cup (IF ok1 /\ r < len THEN {est1, r} ELSE {}),
       comps |-> 1 + (IF ok1 /\ r < len THEN 1 ELSE 0),
       comp_est |-> IF ok1 /\ ok2 THEN comp_est ELSE i]

\* one pass of the while body of BinaryHeap::heapify_down up to the test
\* "i == comp_est": the two guarded comparisons
BinaryHeap_pass(h, i) ==
  LET len == size(h)
      l == left(i)
      r == right(i)
      ok1 == (l < len) => Comparable(h, i, l)
      est1 == IF l < len /\ comp(h, At(h.nodes, i), At(h.nodes, l)) THEN l ELSE i
      ok2 == (r < len) => Comparable(h, est1, r)
      comp_est == IF r < len /\ comp(h, At(h.nodes, est1), At(h.nodes, r))
                    THEN r ELSE est1
  IN  [ok |-> ok1 /\ ok2,
       reads |-> (IF l < len THEN {i, l} ELSE {})
                   \cup (IF ok1 /\ r < len THEN {est1, r} ELSE {}),
       comps |-> (IF l < len THEN 1 ELSE 0) + (IF ok1 /\ r < len THEN 1 ELSE 0),
       comp_est |-> IF ok1 /\ ok2 THEN comp_est ELSE i]

\* the for loop of KHeap::heapify_down from child j on; acc holds comp_est
\* and what the loop has read and compared so far
RECURSIVE KHeap_pass_loop(_, _, _, _)
KHeap_pass_loop(h, i, j, acc) ==
  IF j < h.K /\ acc.ok
    THEN LET son == child(h.K, i, j)
             est == acc.comp_est
         IN  IF son < size(h)
               THEN LET asked == [acc EXCEPT !.reads = @ \cup {est, son},
                                             !.comps = @ + 1]
                    IN  IF ~Comparable(h, est, son)
                          THEN [asked EXCEPT !.ok = FALSE]
                        ELSE IF comp(h, At(h.nodes, est), At(h.nodes, son))
                          THEN KHeap_pass_loop(h, i, j + 1, [asked EXCEPT !.comp_est = son])
                        ELSE KHeap_pass_loop(h, i, j + 1, asked)
               ELSE KHeap_pass_loop(h, i, j + 1, acc)
    ELSE acc

KHeap_pass(h, i) ==
  KHeap_pass_loop(h, i, 0, [ok |-> TRUE, reads |-> {}, comps |-> 0, comp_est |-> i])

pass(h, i) == IF h.K = 2 THEN BinaryHeap_pass(h, i) ELSE KHeap_pass(h, i)

\* faulty variant: the loop starts one position too low
build_start_one_short(h) == size(h) \div h.K

\* the first value of build_heap's loop variable
build_start(h) == IF h.K = 2 THEN (size(h) \div 2) + 1 ELSE (size(h) \div h.K) + 1

(***************************************************************************)
(* Initial states of StepSpec: inside the constructor, after the member    *)
(* initialisers (nodes copied, both maps built), before init() runs.       *)
(***************************************************************************)
StepInitHeap ==
  \E k \in Arities, type \in HeapTypes, already \in BOOLEAN,
     inputs \in SeqsUpTo(Vals, MaxLen) :
    \E raw \in {RawHeap(inputs, k, type)} :
      /\ already => Ordered(raw)
      /\ cls = "Heap"
      /\ K = k
      /\ HeapType = type
      /\ nodes = raw.nodes
      /\ key_map = raw.key_map
      /\ index_map = raw.index_map
      /\ ctor_args = Args(<<>>, inputs, already)
      /\ seen = [Unseen EXCEPT !.op = "ctor", !.pre = raw]

StepInitPQ ==
  \E k \in Arities, type \in HeapTypes, already \in BOOLEAN, inputs \in DistinctSeqs :
    \E keys \in [1..Len(inputs) -> Keys] :
      \E raw \in {RawPQ(keys, inputs, k, type)} :
        /\ already => Ordered(raw)
        /\ cls = "PriorityQueue"
        /\ K = k
        /\ HeapType = type
        /\ nodes = raw.nodes
        /\ key_map = raw.key_map
        /\ index_map = raw.index_map
        /\ ctor_args = Args(keys, inputs, already)
        /\ seen = [Unseen EXCEPT !.op = "ctor", !.pre = raw]

StepInit ==
  /\ StepInitHeap \/ StepInitPQ
  /\ frame = Frame("init", 0, 0, "idle")
  /\ signal = Returned
  /\ trail = "steps"
  /\ live = EmptyMap
  /\ monotone = TRUE

(***************************************************************************)
(* Steps.                                                                  *)
(***************************************************************************)
\* no exception and no failed assert has ended the run
Going == signal = Returned

\* position j lies in the subtree rooted at position s
RECURSIVE Under(_, _, _)
Under(h, s, j) == j = s \/ (j > s /\ Under(h, s, parent(h, j)))

\* inside the subtree rooted at s no node must give way to one of its
\* children, the children of position i left aside
OrderedBelow(h, s, i) ==
  \A j \in 1..(size(h) - 1) :
    (j # s /\ Under(h, s, j) /\ parent(h, j) # i) =>
      ~comp(h, At(h.nodes, parent(h, j)), At(h.nodes, j))

\* the step that leads to frame f calls heapify_down
Enters(f) == f.pc = "down" /\ frame.pc # "down"

\* the observation of the latest heapify_down call, after a step to h and f
DownSeen(h, f) ==
  IF Enters(f) THEN [start |-> f.i, sound |-> OrderedBelow(h, f.i, f.i)]
               ELSE [start |-> seen.start, sound |-> seen.sound]

\* the running call goes on: it leaves object h, stands at f and observed o
Step(h, f, o) ==
  /\ nodes' = h.nodes
  /\ key_map' = h.key_map
  /\ index_map' = h.index_map
  /\ frame' = f
  /\ \E d \in {DownSeen(h, f)} :
       seen' = [seen EXCEPT !.reads = o.reads, !.lookups = o.lookups,
                            !.comps = o.comps, !.swap = o.swap,
                            !.start = d.start, !.sound = d.sound]
  /\ signal' = Returned
  /\ UNCHANGED <<cls, K, HeapType, ctor_args, trail, live, monotone>>

\* a call starts on the idle object: its first statements leave object h
Begin(op, key, element, h, f, o) ==
  /\ nodes' = h.nodes
  /\ key_map' = h.key_map
  /\ index_map' = h.index_map
  /\ frame' = f
  /\ \E d \in {DownSeen(h, f)} :
       seen' = [op |-> op, key |-> key, element |-> element, pre |-> Self,
                reads |-> o.reads, lookups |-> o.lookups, comps |-> o.comps,
                swap |-> o.swap, start |-> d.start, sound |-> d.sound]
  /\ signal' = Returned
  /\ UNCHANGED <<cls, K, HeapType, ctor_args, trail, live, monotone>>

\* the step ends the run with signal s, the object as it stands
Raise(s, o) ==
  /\ signal' = s
  /\ seen' = [seen EXCEPT !.reads = o.reads, !.lookups = o.lookups,
                          !.comps = o.comps, !.swap = o.swap]
  /\ UNCHANGED <<cls, K, HeapType, nodes, key_map, index_map, ctor_args, trail, live,
                 monotone, frame>>

\* Heap::init: "if constexpr (!IsAlreadyHeap) build_heap()"
InitStep ==
  /\ Going /\ frame.pc = "init"
  /\ IF ctor_args.IsAlreadyHeap
       THEN Step(Self, Done, NoObs)
       ELSE Step(Self, Frame("build", 0, build_start(Self), "idle"), NoObs)

\* build_heap: "for (i = start; i > 0; --i) heapify_down(i - 1)"
BuildLoop ==
  /\ Going /\ frame.pc = "build"
  /\ IF frame.n > 0
       THEN Step(Self, Frame("down", frame.n - 1, frame.n, "build"), NoObs)
       ELSE Step(Self, Done, NoObs)

\* faulty variant: build_heap's loop variable is not decremented
AfterHeapifyDown_no_decrement ==
  IF frame.ret = "build" THEN Frame("build", frame.i, frame.n, "idle")
                         ELSE Frame("done", frame.i, 0, "idle")

\* where heapify_down returns to: the --i of build_heap, or the call's end
AfterHeapifyDown ==
  IF frame.ret = "build" THEN Frame("build", frame.i, frame.n - 1, "idle")
                         ELSE Frame("done", frame.i, 0, "idle")

\* heapify_down: the test of the while loop and one pass of its body
HeapifyDownStep ==
  /\ Going /\ frame.pc = "down"
  /\ \E h \in {Self}, i \in {frame.i} :
       IF is_leaf(h, i)
         THEN Step(h, AfterHeapifyDown, NoObs)
         ELSE \E p \in {pass(h, i)} :
                \E looked \in {ElementsAt(h, p.reads)} :
                  IF ~p.ok
                    THEN Raise(Terminated, Obs(p.reads, looked, p.comps, <<>>))
                  ELSE IF p.comp_est = i
                    THEN Step(h, AfterHeapifyDown, Obs(p.reads, looked, p.comps, <<>>))
                  ELSE IF ~Swappable(h, i, p.comp_est)
                    THEN Raise(Terminated,
                               Obs(p.reads, looked, p.comps, <<i, p.comp_est>>))
                  ELSE Step(swap_nodes(h, i, p.comp_est),
                            [frame EXCEPT !.i = p.comp_est],
                            Obs(p.reads, looked, p.comps, <<i, p.comp_est>>))

\* faulty variant: the loop goes on unless the node loses to its parent, so
\* a tie is swapped too
HeapifyUpStep_swaps_on_ties ==
  /\ Going /\ frame.pc = "up"
  /\ \E h \in {Self}, i \in {frame.i} :
       IF i > 0
         THEN \E p \in {parent(h, i)} :
                \E o \in {Obs({p, i}, ElementsAt(h, {p, i}), 1, <<>>)} :
                  IF ~Comparable(h, p, i)
                    THEN Raise(Terminated, o)
                  ELSE IF comp(h, At(h.nodes, i), At(h.nodes, p))
                    THEN Step(h, Done, o)
                  ELSE IF ~Swappable(h, i, p)
                    THEN Raise(Terminated, [o EXCEPT !.swap = <<i, p>>])
                  ELSE Step(swap_nodes(h, i, p), [frame EXCEPT !.i = p],
                            [o EXCEPT !.swap = <<i, p>>])
         ELSE Step(h, Done, NoObs)

\* heapify_up: the test of the while loop and one pass of its body
HeapifyUpStep ==
  /\ Going /\ frame.pc = "up"
  /\ \E h \in {Self}, i \in {frame.i} :
       IF i > 0
         THEN \E p \in {parent(h, i)} :
                \E o \in {Obs({p, i}, ElementsAt(h, {p, i}), 1, <<>>)} :
                  IF ~Comparable(h, p, i)
                    THEN Raise(Terminated, o)
                  ELSE IF ~comp(h, At(h.nodes, p), At(h.nodes, i))
                    THEN Step(h, Done, o)
                  ELSE IF ~Swappable(h, i, p)
                    THEN Raise(Terminated, [o EXCEPT !.swap = <<i, p>>])
                  ELSE Step(swap_nodes(h, i, p), [frame EXCEPT !.i = p],
                            [o EXCEPT !.swap = <<i, p>>])
         ELSE Step(h, Done, NoObs)

\* the call returns to its caller
Return ==
  /\ Going /\ frame.pc = "done"
  /\ frame' = Idle
  /\ seen' = Unseen
  /\ ctor_args' = NoArgs
  /\ UNCHANGED <<cls, K, HeapType, nodes, key_map, index_map, trail, live, monotone,
                 signal>>

\* Heap::push on a plain heap: emplace_back, then heapify_up(index_to_fix)
BeginHeapPush(v) ==
  /\ Going /\ frame.pc = "idle" /\ cls = "Heap"
  /\ size(Self) < MaxLen
  /\ Begin("push", 0, v, [Self EXCEPT !.nodes = Append(nodes, v)],
           Frame("up", size(Self), 0, "done"), NoObs)

\* Heap::pop on a plain heap: the assert, nodes.at(0) = nodes.back(),
\* pop_back(), then heapify_down(0)
BeginHeapPop ==
  /\ Going /\ frame.pc = "idle" /\ cls = "Heap"
  /\ IF size(Self) > 0
       THEN \E n \in {size(Self)} :
              Begin("pop", 0, 0,
                    [Self EXCEPT !.nodes = SubSeq([nodes EXCEPT ![1] = nodes[n]], 1, n - 1)],
                    Frame("down", 0, 0, "done"), Obs({0, n - 1}, {}, 0, <<>>))
       ELSE Raise(AssertionFailure, NoObs)

\* faulty variant: the new element gets no index_map entry
BeginPush_index_not_recorded(key, element) ==
  /\ Going /\ frame.pc = "idle" /\ cls = "PriorityQueue"
  /\ element \notin Range(nodes)
  /\ Begin("push", key, element,
           [Self EXCEPT !.key_map = MapPut(key_map, element, key),
                        !.nodes = Append(nodes, element)],
           Frame("up", size(Self), 0, "done"), NoObs)

\* PriorityQueue::push: the two map entries, emplace_back, heapify_up
BeginPush(key, element) ==
  /\ Going /\ frame.pc = "idle" /\ cls = "PriorityQueue"
  /\ ~contains(Self, element)
  /\ Begin("push", key, element,
           [Self EXCEPT !.index_map = MapPut(index_map, element, size(Self)),
                        !.key_map = MapPut(key_map, element, key),
                        !.nodes = Append(nodes, element)],
           Frame("up", size(Self), 0, "done"), NoObs)

\* faulty variant: key_map.erase(node) is left for later
BeginPop_keeps_key_entry ==
  /\ Going /\ frame.pc = "idle" /\ cls = "PriorityQueue"
  /\ IF size(Self) > 0
       THEN \E node \in {At(nodes, 0)} :
              Begin("pop", 0, node,
                    [Self EXCEPT !.index_map = MapErase(index_map, node)],
                    Frame("erased", 0, 0, "done"), Obs({0}, {}, 0, <<>>))
       ELSE Raise(AssertionFailure, NoObs)

\* PriorityQueue::pop up to the two erase calls
BeginPop ==
  /\ Going /\ frame.pc = "idle" /\ cls = "PriorityQueue"
  /\ IF size(Self) > 0
       THEN \E node \in {At(nodes, 0)} :
              Begin("pop", 0, node,
                    [Self EXCEPT !.index_map = MapErase(index_map, node),
                                 !.key_map = MapErase(key_map, node)],
                    Frame("erased", 0, 0, "done"), Obs({0}, {}, 0, <<>>))
       ELSE Raise(AssertionFailure, NoObs)

\* PriorityQueue::pop: nodes.at(0) = nodes.back(); nodes.pop_back()
PopMove ==
  /\ Going /\ frame.pc = "erased"
  /\ \E n \in {size(Self)} :
       Step([Self EXCEPT !.nodes = SubSeq([nodes EXCEPT ![1] = nodes[n]], 1, n - 1)],
            [frame EXCEPT !.pc = "moved"], Obs({0, n - 1}, {}, 0, <<>>))

\* faulty variant: heapify_down(0) starts without index_map.at(front) = 0
PopFront_front_not_registered ==
  /\ Going /\ frame.pc = "moved"
  /\ IF size(Self) > 0
       THEN Step(Self, Frame("down", 0, 0, "done"), Obs({0}, {}, 0, <<>>))
       ELSE Step(Self, Done, NoObs)

\* PriorityQueue::pop: "if (size() > 0) { index_map.at(front) = 0;
\* heapify_down(0); }"
PopFront ==
  /\ Going /\ frame.pc = "moved"
  /\ IF size(Self) > 0
       THEN \E front \in {At(nodes, 0)} :
              IF front \in DOMAIN index_map
                THEN Step([Self EXCEPT !.index_map = [index_map EXCEPT ![front] = 0]],
                          Frame("down", 0, 0, "done"), Obs({0}, {front}, 0, <<>>))
                ELSE Raise(OutOfRange, Obs({0}, {front}, 0, <<>>))
       ELSE Step(Self, Done, NoObs)

\* faulty variant: a key against the polarity is replaced by the old key
BeginUpdateKey_key_clamped(key, element) ==
  /\ Going /\ frame.pc = "idle" /\ cls = "PriorityQueue"
  /\ IF element \in DOMAIN index_map /\ element \in DOMAIN key_map
       THEN Begin("update_key", key, element,
                  [Self EXCEPT !.key_map =
                     [key_map EXCEPT ![element] =
                        IF Permitted(Self, key, element) THEN key ELSE @]],
                  Frame(IF HeapType = "min_heap" THEN "up" ELSE "down",
                        index_map[element], 0, "done"),
                  Obs({}, {element}, 0, <<>>))
       ELSE Raise(OutOfRange, Obs({}, {element}, 0, <<>>))

\* faulty variant: the repair is started at the root, not at the element
BeginUpdateKey_repairs_root(key, element) ==
  /\ Going /\ frame.pc = "idle" /\ cls = "PriorityQueue"
  /\ IF element \in DOMAIN index_map /\ element \in DOMAIN key_map
       THEN Begin("update_key", key, element,
                  [Self EXCEPT !.key_map = [key_map EXCEPT ![element] = key]],
                  Frame(IF HeapType = "min_heap" THEN "up" ELSE "down", 0, 0, "done"),
                  Obs({}, {element}, 0, <<>>))
       ELSE Raise(OutOfRange, Obs({}, {element}, 0, <<>>))

\* PriorityQueue::update_key up to the repair: index_map.at(element),
\* key_map.at(element) = key, then heapify_up or heapify_down by HeapType
BeginUpdateKey(key, element) ==
  /\ Going /\ frame.pc = "idle" /\ cls = "PriorityQueue"
  /\ IF element \in DOMAIN index_map /\ element \in DOMAIN key_map
       THEN Begin("update_key", key, element,
                  [Self EXCEPT !.key_map = [key_map EXCEPT ![element] = key]],
                  Frame(IF HeapType = "min_heap" THEN "up" ELSE "down",
                        index_map[element], 0, "done"),
                  Obs({}, {element}, 0, <<>>))
       ELSE Raise(OutOfRange, Obs({}, {element}, 0, <<>>))

StepNext ==
  \/ InitStep
  \/ BuildLoop
  \/ HeapifyDownStep
  \/ HeapifyUpStep
  \/ Return
  \/ \E v \in Vals : BeginHeapPush(v)
  \/ BeginHeapPop
  \/ \E key \in Keys, element \in Elems : BeginPush(key, element)
  \/ BeginPop
  \/ PopMove
  \/ PopFront
  \/ \E key \in Keys, element \in Elems : BeginUpdateKey(key, element)

StepSpec == StepInit /\ [][StepNext]_vars

\* the object the whole call leaves, computed at once from the object the
\* call started from
CallResult ==
  IF seen.op = "ctor"
    THEN Heap_init(seen.pre, ctor_args.IsAlreadyHeap)
  ELSE IF seen.op = "push"
    THEN IF IsPQ THEN PQ_push(seen.pre, seen.key, seen.element)
                 ELSE Heap_push(seen.pre, seen.element)
  ELSE IF seen.op = "pop"
    THEN IF IsPQ THEN PQ_pop(seen.pre) ELSE Heap_pop(seen.pre)
  ELSE PQ_update_key(seen.pre, seen.key, seen.element)

\* the steps of a call, taken one by one, end in the object the call as a
\* whole computes
StepsAgreeWithCalls == (frame.pc = "done") => Self = CallResult

(***************************************************************************)
(* Repairs, step by step.                                                  *)
(***************************************************************************)
\* the constructor is running or has just completed
InCtor == seen.op = "ctor"

\* C21: build_heap turns every input vector of every length (0, 1, 2, odd,
\* even, a multiple of K or not) into one that satisfies the heap property,
\* for BinaryHeap (first index size/2) and KHeap (first index size/K), and
\* no step of it passes a position >= size() to nodes.at.
C21_BuildHeapMakesHeap ==
  (InCtor /\ ~ctor_args.IsAlreadyHeap) =>
    /\ signal = Returned
    /\ seen.reads \subseteq 0..(size(Self) - 1)
    /\ (frame.pc = "build") => frame.n <= (size(Self) \div K) + 1
    /\ (frame.pc = "down") => (frame.i < size(Self) \/ frame.i = 0)
    /\ (frame.pc = "done") => HeapProperty(Self)

\* a 3-ary heap of five values (not a multiple of 3) whose build has just
\* completed and has moved nodes
C21_Witness ==
  /\ IsHeap /\ K = 3
  /\ InCtor /\ ~ctor_args.IsAlreadyHeap
  /\ frame.pc = "done"
  /\ Len(nodes) = 5
  /\ nodes # ctor_args.inputs
  /\ At(nodes, 0) # At(ctor_args.inputs, 0)
  /\ At(nodes, 4) # At(ctor_args.inputs, 4)

\* the positions of the children of position i that exist
ChildrenOf(h, i) == {c \in 1..(size(h) - 1) : parent(h, c) = i}

\* the node at position i need not give way to any of its children
Wins(h, i) == \A c \in ChildrenOf(h, i) : ~comp(h, At(h.nodes, i), At(h.nodes, c))

\* heapify_down has returned with this step, or into build_heap's loop
DownReturned ==
  /\ seen.start >= 0
  /\ frame.pc = "build" \/ (frame.pc = "done" /\ seen.op # "ctor")

\* C22: every swap of heapify_down exchanges the current node with one of
\* its children, the one that need not give way to the current node nor to
\* any other child in range, and only if the current node must give way to
\* it; heapify_down returns without a swap as soon as the current node wins
\* (or is a leaf); and if all subtrees below the position it was called
\* with were heaps, the subtree rooted there is a heap when it returns
\* (during the loop only the current node may be out of place).
C22_HeapifyDownRepairsSubtree ==
  Going =>
    /\ (frame.pc = "down" /\ seen.swap # <<>>) =>
         /\ frame.i = seen.swap[2]
         /\ seen.swap[2] \in ChildrenOf(Self, seen.swap[1])
         /\ Wins(Self, seen.swap[1])
         /\ comp(Self, At(nodes, seen.swap[2]), At(nodes, seen.swap[1]))
    /\ DownReturned =>
         /\ seen.swap = <<>>
         /\ Wins(Self, frame.i)
    /\ (frame.pc = "down" /\ seen.sound) => OrderedBelow(Self, seen.start, frame.i)
    /\ (DownReturned /\ seen.sound) => OrderedBelow(Self, seen.start, -1)

\* a binary heap of four nodes in the middle of pop's heapify_down(0): the
\* node put at the root has gone down two levels and three different
\* values now lie on its path
C22_Witness ==
  /\ IsHeap /\ K = 2
  /\ seen.op = "pop"
  /\ frame.pc = "down"
  /\ seen.start = 0 /\ seen.sound
  /\ seen.swap = <<1, 3>>
  /\ Len(nodes) = 4
  /\ At(nodes, 0) < At(nodes, 1) /\ At(nodes, 1) < At(nodes, 3)

\* index_map holds exactly the elements of nodes, each with its position
IndexMapExact(h) ==
  /\ DOMAIN h.index_map = Range(h.nodes)
  /\ \A p \in 0..(size(h) - 1) : h.index_map[At(h.nodes, p)] = p

\* the steps of PriorityQueue::pop between the erase calls and the
\* registration of the new front
InsidePop == frame.pc \in {"erased", "moved"}

\* C23: in a PriorityQueue every swap of heapify_up, heapify_down and
\* build_heap (the build of the constructor included) is made by
\* PriorityQueue::swap_nodes, which exchanges the two nodes and their
\* index_map entries together: index_map[e] is e's position before and after
\* every single swap of a repair, not only when the call has completed.
C23_IndexMapThroughEverySwap ==
  (IsPQ /\ Going /\ ~InsidePop) =>
    /\ IndexMapExact(Self)
    /\ (seen.swap # <<>>) =>
         /\ index_map[At(nodes, seen.swap[1])] = seen.swap[1]
         /\ index_map[At(nodes, seen.swap[2])] = seen.swap[2]
         /\ DOMAIN key_map = DOMAIN index_map

\* a queue of three elements inside the constructor's build_heap, right
\* after a swap: index_map is no longer the one the constructor filled in
C23_Witness ==
  /\ IsPQ
  /\ seen.op = "ctor"
  /\ frame.pc = "down"
  /\ seen.swap = <<0, 2>>
  /\ Len(nodes) = 3
  /\ index_map # seen.pre.index_map
  /\ index_map[At(nodes, 0)] = 0 /\ index_map[At(nodes, 2)] = 2

(***************************************************************************)
(* Frame of pop and update_key.                                            *)
(***************************************************************************)
\* PriorityQueue::pop is running or has just completed
InPQPop == IsPQ /\ seen.op = "pop"

\* C24: PriorityQueue::pop on a non-empty queue removes exactly the element
\* that was at position 0: its key_map and index_map entries are erased,
\* every other element stays with its key, the former last element stands
\* at position 0 with index_map entry 0 when heapify_down(0) starts, and a
\* pop of the only element leaves nodes and both maps empty.
C24_PopRemovesTheRoot ==
  (InPQPop /\ Going) =>
    /\ seen.pre.nodes # <<>>
    /\ seen.element = At(seen.pre.nodes, 0)
    /\ key_map = MapErase(seen.pre.key_map, seen.element)
    /\ DOMAIN index_map = DOMAIN seen.pre.index_map \ {seen.element}
    /\ (frame.pc = "erased") => nodes = seen.pre.nodes
    /\ (frame.pc # "erased") =>
         /\ size(Self) = size(seen.pre) - 1
         /\ Range(nodes) = Range(seen.pre.nodes) \ {seen.element}
    /\ (frame.pc = "down" /\ seen.swap = <<>>) =>
         /\ frame.i = 0
         /\ At(nodes, 0) = At(seen.pre.nodes, size(seen.pre) - 1)
         /\ index_map[At(nodes, 0)] = 0
         /\ IndexMapExact(Self)
    /\ (frame.pc = "done") =>
         /\ IndexMapExact(Self)
         /\ (size(seen.pre) = 1) =>
              (nodes = <<>> /\ key_map = EmptyMap /\ index_map = EmptyMap)

\* a queue of three elements whose pop has moved the last element to the
\* root, has given it index 0, and is about to start heapify_down(0)
C24_Witness ==
  /\ InPQPop
  /\ frame.pc = "down" /\ seen.swap = <<>>
  /\ size(seen.pre) = 3
  /\ nodes = <<At(seen.pre.nodes, 2), At(seen.pre.nodes, 1)>>
  /\ seen.pre.index_map[At(nodes, 0)] = 2
  /\ index_map[At(nodes, 0)] = 0
  /\ seen.element \notin DOMAIN key_map

\* PriorityQueue::update_key is running or has just completed
InUpdateKey == IsPQ /\ seen.op = "update_key"

\* the position of the updated element when update_key was called
index_to_fix == seen.pre.index_map[seen.element]

\* the positions update_key's repair may touch: index_to_fix with what is
\* above it (heapify_up, min queue) or below it (heapify_down, max queue)
RepairPath ==
  {p \in 0..(size(seen.pre) - 1) :
     IF IsMin THEN Under(seen.pre, p, index_to_fix)
              ELSE Under(seen.pre, index_to_fix, p)}

\* C25: update_key(key, e) on an element of the queue changes only e's key
\* and the positions of elements on the repair path: size(), the set of
\* elements and the key of every other element stay as they were, and
\* nodes after the call is a permutation of nodes before it.
C25_UpdateKeyFrame ==
  (InUpdateKey /\ Going) =>
    /\ seen.element \in Range(seen.pre.nodes)
    /\ size(Self) = size(seen.pre)
    /\ Range(nodes) = Range(seen.pre.nodes)
    /\ BagOfSeq(nodes) = BagOfSeq(seen.pre.nodes)
    /\ key_map = [seen.pre.key_map EXCEPT ![seen.element] = seen.key]
    /\ DOMAIN index_map = DOMAIN seen.pre.index_map
    /\ \E path \in {RepairPath} :
         /\ \A p \in 0..(size(Self) - 1) :
              (At(nodes, p) # At(seen.pre.nodes, p)) => p \in path
         /\ \A e \in Range(nodes) :
              (index_map[e] # seen.pre.index_map[e]) => seen.pre.index_map[e] \in path

\* a max queue of three elements whose update_key has completed: the
\* element that was at the root got a lower key and went down, the key of
\* the others is what it was
C25_Witness ==
  /\ InUpdateKey /\ ~IsMin
  /\ frame.pc = "done"
  /\ size(Self) = 3
  /\ index_to_fix = 0
  /\ seen.key < seen.pre.key_map[seen.element]
  /\ index_map[seen.element] # 0
  /\ \A e \in Range(nodes) \ {seen.element} : key_map[e] = seen.pre.key_map[e]

\* the running update_key moves the key against the documented direction:
\* up in a min queue, down in a max queue
AgainstPolarity == InUpdateKey /\ ~Permitted(seen.pre, seen.key, seen.element)

\* C26: update_key with a key that moves the element against the queue's
\* polarity is not checked: no step of the call ends in an error, the key
\* stored (and returned by key_at afterwards) is exactly the key passed
\* in, and only the one repair of the heap type runs: heapify_up in a min
\* queue (which then finds nothing to swap if the queue was a heap),
\* heapify_down in a max queue.
C26_WrongDirectionUnchecked ==
  AgainstPolarity =>
    /\ signal = Returned
    /\ key_map[seen.element] = seen.key
    /\ frame.pc \in (IF IsMin THEN {"up", "done"} ELSE {"down", "done"})
    /\ seen.start = (IF IsMin THEN -1 ELSE index_to_fix)
    /\ (frame.pc = "done") =>
         /\ PQ_key_at_call(Self, seen.element) = Outcome(Returned, Self)
         /\ key_at(Self, seen.element) = seen.key
         /\ seen.key # key_at(seen.pre, seen.element)
    /\ (IsMin /\ HeapProperty(seen.pre)) =>
         /\ nodes = seen.pre.nodes
         /\ index_map = seen.pre.index_map
         /\ seen.swap = <<>>

\* a min queue that was a heap: update_key has raised the key of its root
\* above a child's, the call has completed, and the root has stayed
C26_Witness ==
  /\ AgainstPolarity /\ IsMin
  /\ frame.pc = "done"
  /\ HeapProperty(seen.pre)
  /\ index_to_fix = 0
  /\ size(Self) = 3
  /\ key_at(Self, At(nodes, 0)) = 2
  /\ ~HeapProperty(Self)

(***************************************************************************)
(* Bookkeeping under arbitrary keys.                                       *)
(***************************************************************************)
\* size() at the moment the latest step read nodes: the two steps that end
\* with pop_back read before it
SizeWhenRead ==
  IF seen.op = "pop" /\ seen.swap = <<>>
       /\ (frame.pc = "moved" \/ (IsHeap /\ frame.pc = "down"))
    THEN size(Self) + 1
    ELSE size(Self)

\* no call is running: before a call, or when one has just completed
AtRest == frame.pc \in {"idle", "done"}

\* C27: whatever keys update_key was given (the heap order may be broken),
\* the bookkeeping survives every later push, pop and update_key: between
\* calls index_map[e] is e's position, key_map and index_map hold exactly
\* the elements of nodes and size() is their number; no step of any call
\* passes a position >= size() to nodes.at or looks up an element that has
\* no map entry (nothing ends in std::terminate; std::out_of_range is
\* raised only by a call about an element that is not in the queue).
C27_BookkeepingSurvives ==
  /\ signal # Terminated
  /\ seen.reads \subseteq 0..(SizeWhenRead - 1)
  /\ (signal = OutOfRange) =>
       /\ frame.pc = "idle"
       /\ seen.lookups \cap Range(nodes) = {}
  /\ (IsPQ /\ Going) =>
       /\ seen.lookups \subseteq DOMAIN key_map
       /\ seen.lookups \subseteq DOMAIN index_map
  /\ (IsPQ /\ Going /\ AtRest) =>
       /\ IndexMapExact(Self)
       /\ DOMAIN key_map = Range(nodes)
       /\ Cardinality(DOMAIN key_map) = size(Self)
       /\ Cardinality(DOMAIN index_map) = size(Self)

\* a min queue whose heap order had been broken by a raised key: a push on
\* it has completed, the order is still broken, the bookkeeping is exact
C27_Witness ==
  /\ IsPQ /\ IsMin
  /\ frame.pc = "done"
  /\ seen.op = "push"
  /\ ~HeapProperty(seen.pre)
  /\ ~HeapProperty(Self)
  /\ size(Self) = 3
  /\ IndexMapExact(Self)
  /\ DOMAIN key_map = Range(nodes)

(***************************************************************************)
(* update_key with the key the element already has.                        *)
(***************************************************************************)
\* the call being observed is update_key(key, e) with key = e's key, on a
\* queue that satisfied the heap property
SameKeyUpdate ==
  /\ InUpdateKey /\ Going
  /\ seen.key = key_at(seen.pre, seen.element)
  /\ HeapProperty(seen.pre)

\* C28: update_key(key, e) with key equal to e's current key, on a queue
\* that satisfies the heap property, changes nothing, min or max: at every
\* step of the call no swap is made and nodes, index_map and key_map are
\* what they were before the call.  And whatever the key and the order,
\* once an update_key call has completed, the same call again leaves the
\* state as it is.
C28_SameKeyUpdateIsNoOp ==
  /\ SameKeyUpdate =>
       /\ seen.swap = <<>>
       /\ nodes = seen.pre.nodes
       /\ index_map = seen.pre.index_map
       /\ key_map = seen.pre.key_map
  /\ (InUpdateKey /\ Going /\ frame.pc = "done") =>
       PQ_update_key(Self, seen.key, seen.element) = Self

\* an equal-key update has completed on a three-element queue for an
\* element below the root whose key ties with the root's
C28_Witness ==
  /\ SameKeyUpdate
  /\ frame.pc = "done"
  /\ size(Self) = 3
  /\ index_to_fix > 0
  /\ key_at(Self, seen.element) = key_at(Self, At(nodes, 0))

(***************************************************************************)
(* Heap::pop on a heap of one element.                                     *)
(***************************************************************************)
\* the call being observed is Heap::pop on a plain heap of one element
PopOfTheOnlyElement == IsHeap /\ seen.op = "pop" /\ size(seen.pre) = 1

\* C29: Heap::pop() on a heap holding exactly one element leaves the heap
\* empty, and the heapify_down(0) it then calls unconditionally makes no
\* comparator call, no swap and no read of any position, in BinaryHeap and
\* in KHeap alike, although neither leaf test calls position 0 of an empty
\* heap a leaf (KHeap's computes size() - 2 on an unsigned 0): the loop
\* body runs once and every comparison in it is behind its `< len` test.
C29_PopOfLastElement ==
  PopOfTheOnlyElement =>
    /\ signal = Returned
    /\ nodes = <<>>
    /\ seen.comps = 0
    /\ seen.swap = <<>>
    /\ ~is_leaf(Self, 0)
    /\ (frame.pc = "down") => seen.reads = {0}
    /\ (frame.pc = "done") => seen.reads = {}
    /\ frame.pc \in {"down", "done"}

\* a 3-ary heap: pop on its only element has completed
C29_Witness ==
  /\ PopOfTheOnlyElement
  /\ K = 3
  /\ frame.pc = "done"
  /\ nodes = <<>>
  /\ (size(Self) - 2) % SizeMod > 0

(***************************************************************************)
(* The constructor of PriorityQueue followed through its member            *)
(* initialisers (MapsSpec), for element vectors in which an element may    *)
(* be repeated.  frame.pc: "super" before super(inputs), "key_map" and     *)
(* "index_map" at the for header of build_key_map and build_index_map      *)
(* (frame.i is index), "built" before the constructor body, "done" after.  *)
(***************************************************************************)
\* element vectors of up to NumElems entries over one element less: at
\* full length an element is repeated
RepeatingSeqs == SeqsUpTo(1..(NumElems - 1), NumElems)

\* the call PriorityQueue(keys, inputs, comp_factory) at its entry; the
\* two vectors have one length (build_key_map asserts it)
MapsInit ==
  \E k \in Arities, type \in HeapTypes, already \in BOOLEAN,
     inputs \in RepeatingSeqs :
    \E keys \in [1..Len(inputs) -> Keys] :
      /\ already => Ordered(RawPQ(keys, inputs, k, type))
      /\ cls = "PriorityQueue"
      /\ K = k
      /\ HeapType = type
      /\ nodes = <<>>
      /\ key_map = EmptyMap
      /\ index_map = EmptyMap
      /\ ctor_args = Args(keys, inputs, already)
      /\ seen = [Unseen EXCEPT !.op = "ctor"]
      /\ frame = Frame("super", 0, 0, "idle")
      /\ signal = Returned
      /\ trail = "steps"
      /\ live = EmptyMap
      /\ monotone = TRUE

\* super(inputs): Heap's constructor copies the vector into nodes
CopyInputs ==
  /\ Going /\ frame.pc = "super"
  /\ Step([Self EXCEPT !.nodes = ctor_args.inputs], Frame("key_map", 0, 0, "idle"), NoObs)

\* build_key_map: the test of the for loop and one pass of its body,
\* local_key_map[node] = keys[index]
KeyMapPass ==
  /\ Going /\ frame.pc = "key_map"
  /\ \E index \in {frame.i} :
       IF index < size(Self)
         THEN Step([Self EXCEPT !.key_map = MapPut(key_map, At(nodes, index),
                                                   At(ctor_args.keys, index))],
                   [frame EXCEPT !.i = index + 1], Obs({index}, {}, 0, <<>>))
         ELSE Step(Self, Frame("index_map", 0, 0, "idle"), NoObs)

\* build_index_map: the test of the for loop and one pass of its body,
\* local_index_map[node] = index
IndexMapPass ==
  /\ Going /\ frame.pc = "index_map"
  /\ \E index \in {frame.i} :
       IF index < size(Self)
         THEN Step([Self EXCEPT !.index_map = MapPut(index_map, At(nodes, index), index)],
                   [frame EXCEPT !.i = index + 1], Obs({index}, {}, 0, <<>>))
         ELSE Step(Self, Frame("built", 0, 0, "idle"), NoObs)

\* the constructor body: init(comp_factory) binds comp and runs Heap::init
InitBody ==
  /\ Going /\ frame.pc = "built"
  /\ Step(Heap_init(Self, ctor_args.IsAlreadyHeap), Done, NoObs)

MapsNext ==
  \/ CopyInputs
  \/ KeyMapPass
  \/ IndexMapPass
  \/ InitBody

MapsSpec == MapsInit /\ [][MapsNext]_vars

\* the position of the last occurrence of e among the first n nodes
LastAmong(s, e, n) ==
  CHOOSE i \in 0..(n - 1) :
    /\ At(s, i) = e
    /\ \A j \in (i + 1)..(n - 1) : At(s, j) # e

\* map m holds exactly the elements among the first n nodes
HoldsFirst(m, n) == DOMAIN m = {At(nodes, i) : i \in 0..(n - 1)}

\* key_map is filled last-write-wins from the first n nodes
KeyMapLastWins(n) ==
  /\ HoldsFirst(key_map, n)
  /\ \A e \in DOMAIN key_map :
       key_map[e] = At(ctor_args.keys, LastAmong(nodes, e, n))

\* index_map is filled last-write-wins from the first n nodes
IndexMapLastWins(n) ==
  /\ HoldsFirst(index_map, n)
  /\ \A e \in DOMAIN index_map : index_map[e] = LastAmong(nodes, e, n)

\* C30: when the element vector given to the constructor repeats an
\* element, the maps are filled last-write-wins: after every pass of the
\* two loops, and so right after the maps are built, key_map[e] is the key
\* aligned with e's last occurrence and index_map[e] is the position of
\* e's last occurrence; the maps then hold fewer entries than size().
C30_DuplicatesLastWriteWins ==
  /\ (frame.pc = "key_map") => (KeyMapLastWins(frame.i) /\ index_map = EmptyMap)
  /\ (frame.pc = "index_map") =>
       (KeyMapLastWins(size(Self)) /\ IndexMapLastWins(frame.i))
  /\ (frame.pc = "built") =>
       /\ nodes = ctor_args.inputs
       /\ KeyMapLastWins(size(Self))
       /\ IndexMapLastWins(size(Self))
       /\ ~Injective(nodes) =>
            /\ Cardinality(DOMAIN key_map) < size(Self)
            /\ Cardinality(DOMAIN index_map) < size(Self)

\* the maps have just been built from the elements 1, 2, 1 with the keys
\* 2, 1, 0: element 1 has the key 0 and the position 2, two entries each
C30_Witness ==
  /\ frame.pc = "built"
  /\ nodes = <<1, 2, 1>>
  /\ ctor_args.keys = <<2, 1, 0>>
  /\ key_map[1] = 0
  /\ index_map[1] = 2
  /\ Cardinality(DOMAIN key_map) = 2
  /\ Cardinality(DOMAIN index_map) = 2

(***************************************************************************)
(* push of an element that is already in the queue (RepushSpec).           *)
(* PriorityQueue::push has no test for it; the queues start at rest, as    *)
(* the constructor leaves them, and the call is followed step by step.     *)
(***************************************************************************)
\* a queue at rest as PriorityQueue(keys, inputs, comp_factory) leaves it,
\* for the element vectors in S
BuiltFrom(S) ==
  \E k \in Arities, type \in HeapTypes, inputs \in S :
    \E keys \in [1..Len(inputs) -> Keys] :
      \E h \in {PQ_ctor(keys, inputs, k, type, FALSE)} :
        /\ cls = "PriorityQueue"
        /\ K = k
        /\ HeapType = type
        /\ nodes = h.nodes
        /\ key_map = h.key_map
        /\ index_map = h.index_map
        /\ ctor_args = NoArgs
        /\ frame = Idle
        /\ seen = Unseen
        /\ signal = Returned
        /\ trail = "steps"
        /\ live = EmptyMap
        /\ monotone = TRUE

\* a non-empty queue at rest
BuiltQueue == BuiltFrom(DistinctSeqs \ {<<>>})

\* faulty variant: the entries of an element that is present are left alone
BeginPushAgain_keeps_entries(key, element) ==
  /\ Going /\ frame.pc = "idle" /\ cls = "PriorityQueue"
  /\ contains(Self, element)
  /\ Injective(nodes)
  /\ Begin("push", key, element,
           [Self EXCEPT !.nodes = Append(nodes, element)],
           Frame("up", size(Self), 0, "done"), NoObs)

\* PriorityQueue::push with an element that is in the queue (once): the
\* same statements as for a new element
BeginPushAgain(key, element) ==
  /\ Going /\ frame.pc = "idle" /\ cls = "PriorityQueue"
  /\ contains(Self, element)
  /\ Injective(nodes)
  /\ Begin("push", key, element,
           [Self EXCEPT !.index_map = MapPut(index_map, element, size(Self)),
                        !.key_map = MapPut(key_map, element, key),
                        !.nodes = Append(nodes, element)],
           Frame("up", size(Self), 0, "done"), NoObs)

RepushNext ==
  \/ \E key \in Keys, element \in Elems : BeginPushAgain(key, element)
  \/ HeapifyUpStep
  \/ Return

RepushSpec == BuiltQueue /\ [][RepushNext]_vars

\* the positions of the backing sequence that hold element e
PositionsOf(h, e) == {p \in 0..(size(h) - 1) : At(h.nodes, p) = e}

\* a push of an element that was in the queue is being followed
InPushAgain == seen.op = "push" /\ contains(seen.pre, seen.element)

\* C31: push(key, e) for an element e that is already in the queue is not
\* rejected.  It overwrites e's one key_map entry and e's one index_map
\* entry (no entry is added) and appends a second copy of e to nodes: at
\* every step of the call and after it size() is one more than before and
\* exceeds the number of key_map entries, e is at two positions, and the
\* key of e, so of the earlier copy too, is the new key.
C31_PushOfPresentElement ==
  InPushAgain =>
    /\ signal = Returned
    /\ key_map = [seen.pre.key_map EXCEPT ![seen.element] = seen.key]
    /\ DOMAIN index_map = DOMAIN seen.pre.index_map
    /\ size(Self) = size(seen.pre) + 1
    /\ size(Self) > Cardinality(DOMAIN key_map)
    /\ BagOfSeq(nodes) = BagOfSeq(Append(seen.pre.nodes, seen.element))
    /\ Cardinality(PositionsOf(Self, seen.element)) = 2
    /\ key_at(Self, seen.element) = seen.key
    /\ (frame.pc = "up" /\ seen.swap = <<>>) =>
         /\ nodes = Append(seen.pre.nodes, seen.element)
         /\ index_map = [seen.pre.index_map EXCEPT ![seen.element] = size(seen.pre)]

\* element e had the key 2 at position 1 of a min queue of two; push(0, e)
\* has completed: three positions, two map entries, e's key is 0
C31_Witness ==
  /\ InPushAgain /\ IsMin
  /\ frame.pc = "done"
  /\ size(Self) = 3
  /\ Cardinality(DOMAIN key_map) = 2
  /\ key_at(seen.pre, seen.element) = 2
  /\ key_at(Self, seen.element) = 0
  /\ seen.pre.index_map[seen.element] = 1

(***************************************************************************)
(* Termination (TermSpec): the constructor is followed from its entry,     *)
(* then one operation on the object it leaves.  A call runs on the         *)
(* caller's thread and nothing else is scheduled, so a call in progress    *)
(* takes its next step: weak fairness of the steps of a running call.      *)
(***************************************************************************)
\* the constructor returns to its caller
ReturnFromCtor == seen.op = "ctor" /\ Return

\* one step of the call in progress
CallStep ==
  \/ InitStep
  \/ BuildLoop
  \/ HeapifyDownStep
  \/ HeapifyUpStep
  \/ PopMove
  \/ PopFront

TermNext ==
  \/ CallStep
  \/ ReturnFromCtor
  \/ \E v \in Vals : BeginHeapPush(v)
  \/ BeginHeapPop
  \/ \E key \in Keys, element \in Elems : BeginPush(key, element)
  \/ BeginPop
  \/ \E key \in Keys, element \in Elems : BeginUpdateKey(key, element)

\* the constructor of a plain heap at its entry; one position is left for
\* the push that may follow
TermInitHeap ==
  \E k \in Arities, type \in HeapTypes, already \in BOOLEAN,
     inputs \in SeqsUpTo(Vals, MaxLen - 1) :
    \E raw \in {RawHeap(inputs, k, type)} :
      /\ already => Ordered(raw)
      /\ cls = "Heap"
      /\ K = k
      /\ HeapType = type
      /\ nodes = raw.nodes
      /\ key_map = raw.key_map
      /\ index_map = raw.index_map
      /\ ctor_args = Args(<<>>, inputs, already)
      /\ seen = [Unseen EXCEPT !.op = "ctor", !.pre = raw]

\* the element vectors 1, 2, .., n: the elements are used as map keys
\* only, so any vector of distinct elements is one of these renamed
FirstElems == {[i \in 1..n |-> i] : n \in 0..NumElems}

\* the constructor of a queue at its entry, with every key vector
TermInitPQ ==
  \E k \in Arities, type \in HeapTypes, already \in BOOLEAN, inputs \in FirstElems :
    \E keys \in [1..Len(inputs) -> Keys] :
      \E raw \in {RawPQ(keys, inputs, k, type)} :
        /\ already => Ordered(raw)
        /\ cls = "PriorityQueue"
        /\ K = k
        /\ HeapType = type
        /\ nodes = raw.nodes
        /\ key_map = raw.key_map
        /\ index_map = raw.index_map
        /\ ctor_args = Args(keys, inputs, already)
        /\ seen = [Unseen EXCEPT !.op = "ctor", !.pre = raw]

TermInit ==
  /\ TermInitHeap \/ TermInitPQ
  /\ frame = Frame("init", 0, 0, "idle")
  /\ signal = Returned
  /\ trail = "steps"
  /\ live = EmptyMap
  /\ monotone = TRUE

TermSpec == TermInit /\ [][TermNext]_vars /\ WF_vars(CallStep)

\* a call has been entered and has not returned
InCall == frame.pc \notin {"idle", "done"}

\* what the loops count on: after a swap heapify_up stands strictly nearer
\* to 0 and heapify_down strictly farther from it, inside the heap; the
\* loop variable of build_heap is between 0 and its start value
LoopVariants ==
  /\ (frame.pc = "up" /\ seen.swap # <<>>) =>
       (frame.i = seen.swap[2] /\ seen.swap[2] < seen.swap[1])
  /\ (frame.pc = "up") => frame.i < size(Self)
  /\ (frame.pc = "down" /\ seen.swap # <<>>) =>
       (frame.i = seen.swap[2] /\ seen.swap[2] > seen.swap[1] /\ frame.i < size(Self))
  /\ (frame.pc = "build") => (frame.n >= 0 /\ frame.n <= build_start(Self))
  /\ (frame.pc = "build" /\ size(Self) = 0) => frame.n <= 1

\* C32: every operation terminates.  heapify_up's index strictly decreases
\* with every swap, heapify_down's strictly increases and stays inside the
\* heap, build_heap's loop variable counts down from size()/K + 1 to 0 (from
\* 1 for an empty heap); so a call that has been entered (constructor,
\* push, pop, update_key) reaches its return.
C32_EveryOperationTerminates ==
  /\ []LoopVariants
  /\ InCall ~> (frame.pc = "done")

\* the constructor of an empty 3-ary heap has run build_heap and returned
\* from its one heapify_down(0)
C32_Witness ==
  /\ IsHeap /\ K = 3
  /\ seen.op = "ctor" /\ ~ctor_args.IsAlreadyHeap
  /\ nodes = <<>>
  /\ frame.pc = "build" /\ frame.n = 0
  /\ seen.start = 0

(***************************************************************************)
(* A second thread (RaceSpec).  One thread runs PriorityQueue::pop         *)
(* statement by statement; a second thread, with no mutual exclusion,      *)
(* makes one call of top_key_value, key_at or pop, either before the       *)
(* first thread's pop or between its statements ahead of the repair.  The  *)
(* second thread's call is taken as one step; trail tells where it fell    *)
(* ("raced": between the statements of pop) and signal how it ended.       *)
(***************************************************************************)
\* the second thread has not called yet, and the first is not in the repair
OtherMayCall ==
  /\ Going /\ cls = "PriorityQueue"
  /\ trail = "steps"
  /\ frame.pc \in {"idle", "erased", "moved"}

\* the second thread's call ended with s and left the object h
OtherCalled(s, h) ==
  /\ signal' = s
  /\ nodes' = h.nodes
  /\ key_map' = h.key_map
  /\ index_map' = h.index_map
  /\ trail' = IF InsidePop THEN "raced" ELSE "between"
  /\ UNCHANGED <<cls, K, HeapType, ctor_args, live, monotone, frame, seen>>

\* second thread: top_key_value() on a queue it finds non-empty
OtherTopKeyValue ==
  /\ OtherMayCall
  /\ ~empty(Self)
  /\ \E r \in {PQ_top_key_value_call(Self)} : OtherCalled(r.signal, r.self)

\* second thread: key_at(element) for an element it finds in the queue
OtherKeyAt(element) ==
  /\ OtherMayCall
  /\ element \in Range(nodes)
  /\ \E r \in {PQ_key_at_call(Self, element)} : OtherCalled(r.signal, r.self)

\* second thread: pop() on a queue in which it finds two elements or more
\* (the first thread's pop then still has a last element to move)
OtherPop ==
  /\ OtherMayCall
  /\ size(Self) >= 2
  /\ \E r \in {PQ_pop_call(Self)} : OtherCalled(r.signal, r.self)

RaceNext ==
  \/ BeginPop
  \/ PopMove
  \/ PopFront
  \/ HeapifyDownStep
  \/ OtherTopKeyValue
  \/ \E element \in Elems : OtherKeyAt(element)
  \/ OtherPop

RaceSpec == BuiltQueue /\ [][RaceNext]_vars

\* the maps hold exactly the elements of nodes, each at its position
Consistent(h) ==
  /\ IndexMapExact(h)
  /\ DOMAIN h.key_map = Range(h.nodes)

\* C33: PriorityQueue::pop() is not atomic.  Between index_map.erase /
\* key_map.erase and the move of the last element, the old root is still
\* at position 0 of nodes and in neither map: there top_key_value() and
\* key_at(root) of another thread throw std::out_of_range, and only there;
\* after the move the new root's index_map entry is stale.  A pop() of
\* another thread that falls between these statements can leave the maps
\* and nodes inconsistent for good, while calls that fall before the pop
\* leave a consistent queue.
C33_PopIsNotAtomic ==
  /\ (frame.pc = "erased" /\ trail = "steps") =>
       /\ At(nodes, 0) = seen.element
       /\ seen.element \notin DOMAIN index_map
       /\ seen.element \notin DOMAIN key_map
       /\ PQ_top_key_value_call(Self).signal = OutOfRange
       /\ PQ_key_at_call(Self, seen.element).signal = OutOfRange
       /\ ~Consistent(Self)
  /\ (frame.pc = "moved" /\ trail = "steps" /\ size(Self) > 0) =>
       /\ index_map[At(nodes, 0)] = size(Self)
       /\ ~Consistent(Self)
  /\ (signal = OutOfRange) => (frame.pc = "erased" /\ trail = "raced")
  /\ (frame.pc \in {"idle", "done"} /\ trail # "raced") => Consistent(Self)
  /\ signal \in {Returned, OutOfRange}

\* the first thread's pop has returned after a pop of the second thread
\* fell between its statements: an element is in both maps and not in nodes
C33_Witness ==
  /\ frame.pc = "done"
  /\ trail = "raced"
  /\ signal = Returned
  /\ size(Self) = 1
  /\ Cardinality(DOMAIN key_map) = 2
  /\ Cardinality(DOMAIN index_map) = 2
  /\ ~Consistent(Self)

(***************************************************************************)
(* The read-only member functions (ReadSpec).  Each call returns the       *)
(* object it leaves, computed from the lookups it makes, and the action    *)
(* installs that object.                                                   *)
(***************************************************************************)
\* faulty variant: the lookup is made with operator[], which value-
\* initialises an entry for a key that has none
MapFind_subscript(m, k) ==
  [map |-> IF k \in DOMAIN m THEN m ELSE MapPut(m, k, 0), found |-> TRUE]

\* unordered_map::find(k) on a const map: the map and whether the
\* iterator returned differs from end()
MapFind(m, k) == [map |-> m, found |-> k \in DOMAIN m]

\* Heap::size() const
Heap_size_call(h) == Outcome(Returned, h)

\* Heap::empty() const
Heap_empty_call(h) == Heap_size_call(h)

\* PriorityQueue::contains(element) const: index_map.find(element)
PQ_contains_call(h, element) ==
  LET search == MapFind(h.index_map, element)
  IN  Outcome(Returned, [h EXCEPT !.index_map = search.map])

\* any queue at rest, the empty one included
ReadInit == BuiltFrom(DistinctSeqs)

\* a read-only call named op, asked about element, ended as r says
ReadCalled(op, element, r) ==
  /\ Going
  /\ nodes' = r.self.nodes
  /\ key_map' = r.self.key_map
  /\ index_map' = r.self.index_map
  /\ signal' = r.signal
  /\ seen' = [Unseen EXCEPT !.op = op, !.element = element, !.pre = Self]
  /\ UNCHANGED <<cls, K, HeapType, ctor_args, trail, live, monotone, frame>>

CallSize == ReadCalled("size", 0, Heap_size_call(Self))

CallEmpty == ReadCalled("empty", 0, Heap_empty_call(Self))

CallTop == ReadCalled("top", 0, PQ_top_call(Self))

CallTopKeyValue == ReadCalled("top_key_value", 0, PQ_top_key_value_call(Self))

CallContains(element) == ReadCalled("contains", element, PQ_contains_call(Self, element))

CallKeyAt(element) == ReadCalled("key_at", element, PQ_key_at_call(Self, element))

ReadNext ==
  \/ CallSize
  \/ CallEmpty
  \/ CallTop
  \/ CallTopKeyValue
  \/ \E element \in Elems : CallContains(element)
  \/ \E element \in Elems : CallKeyAt(element)

ReadSpec == ReadInit /\ [][ReadNext]_vars

ReadOnlyOps == {"size", "empty", "top", "top_key_value", "contains", "key_at"}

\* C34: size(), empty(), top(), top_key_value(), contains(e) and key_at(e)
\* leave nodes, key_map and index_map as they were, however the call ends
\* (top on an empty queue fails its assert, key_at of an absent element
\* throws); contains(e) for an absent e returns and creates no entry.
C34_ReadsChangeNothing ==
  (seen.op \in ReadOnlyOps) =>
    /\ nodes = seen.pre.nodes
    /\ key_map = seen.pre.key_map
    /\ index_map = seen.pre.index_map
    /\ (seen.op = "contains") =>
         /\ signal = Returned
         /\ seen.element \in DOMAIN index_map <=> seen.element \in Range(nodes)
    /\ (seen.op \in {"size", "empty"}) => signal = Returned

\* contains(e) has returned for an element that is not in a queue of two:
\* index_map has its two entries, none for e
C34_Witness ==
  /\ seen.op = "contains"
  /\ signal = Returned
  /\ size(Self) = 2
  /\ seen.element \notin Range(nodes)
  /\ seen.element \notin DOMAIN index_map
  /\ Cardinality(DOMAIN index_map) = 2

(***************************************************************************)
(* The leaf tests (LeafSpec): is_leaf(i) is asked, as the while test of    *)
(* heapify_down asks it, on every plain heap the constructor can leave.    *)
(* frame.pc tells the answer for position frame.i: "leaf" (the loop is     *)
(* left) or "inner" (the loop body is entered).                            *)
(***************************************************************************)
\* a plain heap at rest as the constructor leaves it
LeafInit ==
  \E k \in Arities, type \in HeapTypes, inputs \in SeqsUpTo(Vals, MaxLen) :
    \E h \in {Heap_ctor(inputs, k, type, FALSE)} :
      /\ cls = "Heap"
      /\ K = k
      /\ HeapType = type
      /\ nodes = h.nodes
      /\ key_map = h.key_map
      /\ index_map = h.index_map
      /\ ctor_args = NoArgs
      /\ frame = Idle
      /\ seen = Unseen
      /\ signal = Returned
      /\ trail = "steps"
      /\ live = EmptyMap
      /\ monotone = TRUE

\* while (!is_leaf(i)) for a position of the heap, or for position 0 of an
\* empty heap (build_heap and Heap::pop call heapify_down(0) on it)
AskIsLeaf(i) ==
  /\ i < size(Self) \/ i = 0
  /\ frame' = Frame(IF is_leaf(Self, i) THEN "leaf" ELSE "inner", i, 0, "idle")
  /\ UNCHANGED <<cls, K, HeapType, nodes, key_map, index_map, ctor_args, trail, live,
                 monotone, signal, seen>>

LeafNext == \E i \in 0..MaxLen : AskIsLeaf(i)

LeafSpec == LeafInit /\ [][LeafNext]_vars

\* is_leaf has answered for position frame.i
Answered == frame.pc \in {"leaf", "inner"}

\* C35: BinaryHeap::is_leaf(i) returns true if and only if position i has
\* no child inside the heap, that is iff 2*i + 1 >= size(), for every size
\* and every i < size().
C35_BinaryLeafTest ==
  (Answered /\ K = 2 /\ frame.i < size(Self)) =>
    (frame.pc = "leaf" <=> 2 * frame.i + 1 >= size(Self))

\* C36: KHeap::is_leaf(i) returns true if and only if position i has no
\* child inside the heap, that is iff K*i + 1 >= size(), for every size,
\* 0 and 1 included, with size() - 2 evaluated in unsigned arithmetic.
C36_KaryLeafTest ==
  (Answered /\ K > 2) =>
    (frame.pc = "leaf" <=> K * frame.i + 1 >= size(Self))

====
